---- MODULE Spec2Model ----
(***************************************************************************)
(* A model of the parsicomb parser-combinator engine: the AtomicCursor,    *)
(* the error model (leaf errors, And/Or error nodes, likely_error), the   *)
(* leaf parsers (ByteParser, IsByteParser, BetweenBytesParser, CharParser, *)
(* IsStringParser, DefaultParser) and the combinators built on them.       *)
(*                                                                         *)
(* A parser is a record that mirrors the Rust struct (its kind and its    *)
(* fields); parse(p, cursor) is the Parser::parse of that struct.  A      *)
(* result is Ok (output, cursor) or Err (error); every result also        *)
(* carries the list of parse() invocations made on the way, in call       *)
(* order, so that "p2 was run on cursor C" is a fact of the model.         *)
(***************************************************************************)
EXTENDS Integers, Sequences, FiniteSets, TLC

VARIABLES
    src,      \* the source slice the cursors of this run borrow
    cursor,   \* the caller's current cursor
    parser,   \* the parser of the last parse() call (NoParser before any)
    arg,      \* the cursor handed to the last call
    result,   \* what the last call returned
    etree     \* an error value under construction (error-model runs)

vars == <<src, cursor, parser, arg, result, etree>>

-----------------------------------------------------------------------------
(* Bounds *)

\* longest source of the combinator runs
MaxLen == 3
\* longest source of the separated-list runs
MaxListLen == 4
\* most bytes that follow an encoded scalar value in the UTF-8 runs
MaxTail == 2
\* deepest error tree of the error-model runs
MaxDepth == 3

\* longest source of the error-rendering runs
MaxText == 7

\* A repetition that is still applying its child after this many
\* applications is reported as Running: more than any input of the model
\* allows a consuming child.
MaxApps == MaxLen + MaxListLen + MaxText + 20

RECURSIVE SeqsUpTo(_, _)
SeqsUpTo(S, n) ==
    IF n = 0 THEN {<<>>}
    ELSE LET shorter == SeqsUpTo(S, n - 1)
         IN  shorter \cup {Append(s, x) : s \in {t \in shorter : Len(t) = n - 1}, x \in S}

Max(a, b) == IF a >= b THEN a ELSE b

-----------------------------------------------------------------------------
(* cursors/atomic.rs: AtomicCursor *)

Valid(data, position) == [kind |-> "Valid", data |-> data, position |-> position]
EndOfFile(data) == [kind |-> "EndOfFile", data |-> data]

CodeLoc_new(code, loc) == [code |-> code, loc |-> loc]

SyntaxError(message, loc) == [kind |-> "SyntaxError", message |-> message, loc |-> loc]
CannotReadValueAtEof(loc) == [kind |-> "CannotReadValueAtEof", loc |-> loc]
UnexpectedEndOfFile(loc) == [kind |-> "UnexpectedEndOfFile", loc |-> loc]
AlreadyAtEndOfFile(loc) == [kind |-> "AlreadyAtEndOfFile", loc |-> loc]

\* Result values.  calls: the parse() invocations made, in order.
Ok(out, c, calls) == [tag |-> "Ok", out |-> out, cursor |-> c, calls |-> calls]
Err(e, calls) == [tag |-> "Err", err |-> e, calls |-> calls]
Running(calls) == [tag |-> "Running", calls |-> calls]
IsOk(r) == r.tag = "Ok"
IsErr(r) == r.tag = "Err"

AtomicCursor_new(data) ==
    IF Len(data) = 0 THEN EndOfFile(data) ELSE Valid(data, 0)

\* data[*position]: a slice index, which panics when out of bounds
value(c) ==
    IF c.kind = "Valid"
    THEN IF c.position < Len(c.data)
         THEN Ok(c.data[c.position + 1], c, <<>>)
         ELSE [tag |-> "Panic", calls |-> <<>>]
    ELSE Err(CannotReadValueAtEof(CodeLoc_new(c.data, Len(c.data))), <<>>)

\* next() with the bug of not clamping at the end of the data
next_unclamped(c) ==
    IF c.kind = "Valid" THEN Valid(c.data, c.position + 1) ELSE EndOfFile(c.data)

next(c) ==
    IF c.kind = "Valid"
    THEN IF c.position + 1 >= Len(c.data)
         THEN EndOfFile(c.data)
         ELSE Valid(c.data, c.position + 1)
    ELSE EndOfFile(c.data)

\* try_next with the bug of locating the error of the last element at that
\* element
try_next_at_last(c) ==
    IF c.kind = "Valid"
    THEN LET n == next(c)
         IN  IF n.kind = "Valid"
             THEN Ok(<<>>, n, <<>>)
             ELSE Err(UnexpectedEndOfFile(CodeLoc_new(c.data, c.position)), <<>>)
    ELSE Err(AlreadyAtEndOfFile(CodeLoc_new(c.data, Len(c.data))), <<>>)

\* try_next with the bug of succeeding on the last element
try_next_onto_end(c) ==
    IF c.kind = "Valid"
    THEN Ok(<<>>, next(c), <<>>)
    ELSE Err(AlreadyAtEndOfFile(CodeLoc_new(c.data, Len(c.data))), <<>>)

try_next(c) ==
    IF c.kind = "Valid"
    THEN LET n == next(c)
         IN  IF n.kind = "Valid"
             THEN Ok(<<>>, n, <<>>)
             ELSE Err(UnexpectedEndOfFile(CodeLoc_new(n.data, Len(n.data))), <<>>)
    ELSE Err(AlreadyAtEndOfFile(CodeLoc_new(c.data, Len(c.data))), <<>>)

position(c) == IF c.kind = "Valid" THEN c.position ELSE Len(c.data)

source(c) == c.data

inner(c) == <<c.data, position(c)>>

\* cursor.rs: eos() is "value() fails"
eos(c) == ~IsOk(value(c))

-----------------------------------------------------------------------------
(* error.rs, or.rs, and.rs: the error model *)

WrappedError(e) == [kind |-> "WrappedError", inner |-> e]
FirstParser(e) == [kind |-> "FirstParser", inner |-> e]
SecondParser(e) == [kind |-> "SecondParser", inner |-> e]
BothFailed(first, second) == [kind |-> "BothFailed", first |-> first, second |-> second]

\* between.rs BetweenError
OpenDelimiter(e) == [kind |-> "OpenDelimiter", inner |-> e]
Content(e) == [kind |-> "Content", inner |-> e]
CloseDelimiter(e) == [kind |-> "CloseDelimiter", inner |-> e]

\* then_optionally.rs ThenOptionallyError::FirstParser
ThenOptionallyError_FirstParser(e) == [kind |-> "ThenOptionallyError", inner |-> e]

\* filter.rs FilterError
ParserError(e) == [kind |-> "ParserError", inner |-> e]
FilterFailed(e) == [kind |-> "FilterFailed", inner |-> e]

LeafKinds ==
    {"SyntaxError", "CannotReadValueAtEof", "UnexpectedEndOfFile",
     "AlreadyAtEndOfFile", "WrappedError"}

RECURSIVE likely_error(_)
RECURSIVE loc(_)

\* ErrorLeaf::loc of ParsicombError
loc(e) ==
    IF e.kind = "WrappedError" THEN loc(likely_error(e.inner)) ELSE e.loc

CodeLoc_position(l) == l.loc

\* atomic.rs Atomic::NEWLINE for u8
NEWLINE == 10

\* CodeLoc::readable_position counting a newline at loc itself
RECURSIVE readable_position_loop_late(_, _, _, _)
readable_position_loop_late(l, i, line, line_start) ==
    IF i >= Len(l.code) \/ i > l.loc
    THEN [line |-> line, byte_offset |-> l.loc - line_start]
    ELSE IF l.code[i + 1] = NEWLINE
    THEN readable_position_loop_late(l, i + 1, line + 1, i + 1)
    ELSE readable_position_loop_late(l, i + 1, line, line_start)

\* error.rs CodeLoc::readable_position: the loop over the elements before
\* loc, then byte_offset = loc - line_start
RECURSIVE readable_position_loop(_, _, _, _)
readable_position_loop(l, i, line, line_start) ==
    IF i >= Len(l.code) \/ i >= l.loc
    THEN [line |-> line, byte_offset |-> l.loc - line_start]
    ELSE IF l.code[i + 1] = NEWLINE
    THEN readable_position_loop(l, i + 1, line + 1, i + 1)
    ELSE readable_position_loop(l, i + 1, line, line_start)

readable_position(l) == readable_position_loop(l, 0, 1, 0)

\* format!("{}", n) of a line number: its decimal digits as characters
RECURSIVE Decimal(_)
Decimal(n) == IF n < 10 THEN <<48 + n>> ELSE Decimal(n \div 10) \o <<48 + (n % 10)>>

\* " ".repeat(n)
RECURSIVE Spaces(_)
Spaces(n) == IF n <= 0 THEN <<>> ELSE <<32>> \o Spaces(n - 1)

\* error.rs context_lines: format!("  > {} | ", n) on the line of the error
\* and format!("    {} | ", n) on the others
line_prefix(current_line, pos) ==
    IF current_line = pos.line
    THEN <<32, 32, 62, 32>> \o Decimal(current_line) \o <<32, 124, 32>>
    ELSE <<32, 32, 32, 32>> \o Decimal(current_line) \o <<32, 124, 32>>

\* format!("{}^--- here", " ".repeat(pointer_offset))
pointer_line(pointer_offset) ==
    Spaces(pointer_offset) \o <<94, 45, 45, 45, 32, 104, 101, 114, 101>>

\* current_line >= pos.line.saturating_sub(2) && current_line <= pos.line + 2
in_context_window(current_line, pos) ==
    /\ current_line >= Max(pos.line - 2, 0)
    /\ current_line <= pos.line + 2

\* the lines pushed for one line of the text inside the window: the line
\* with its prefix, and under the line of the error the pointer
pushed_lines(current_line, pos, line_content) ==
    IF current_line = pos.line
    THEN <<line_prefix(current_line, pos) \o line_content,
           pointer_line(Len(line_prefix(current_line, pos)) + pos.byte_offset)>>
    ELSE <<line_prefix(current_line, pos) \o line_content>>

\* error.rs CodeLoc::context_lines: the loop over the characters of the
\* text, then the last line when the text does not end with a newline.
\* The text is format_slice of the source, which for a source of ASCII
\* bytes is the source itself.
RECURSIVE context_lines_loop(_, _, _, _, _, _)
context_lines_loop(text, pos, i, current_line, line_start, lines) ==
    IF i >= Len(text)
    THEN IF line_start < Len(text) /\ in_context_window(current_line, pos)
         THEN lines \o pushed_lines(current_line, pos,
                                    SubSeq(text, line_start + 1, Len(text)))
         ELSE lines
    ELSE IF text[i + 1] = NEWLINE
    THEN context_lines_loop(text, pos, i + 1, current_line + 1, i + 1,
             IF in_context_window(current_line, pos)
             THEN lines \o pushed_lines(current_line, pos,
                                        SubSeq(text, line_start + 1, i))
             ELSE lines)
    ELSE context_lines_loop(text, pos, i + 1, current_line, line_start, lines)

context_lines(l) == context_lines_loop(l.code, readable_position(l), 0, 1, 0, <<>>)

\* OrError::likely_error with the bug of never looking at the second branch
OrError_likely_error_first(e) == likely_error(e.first)

\* OrError::likely_error with the bug of preferring the second alternative
\* on a tie
OrError_likely_error_last(e) ==
    IF CodeLoc_position(loc(likely_error(e.first)))
           > CodeLoc_position(loc(likely_error(e.second)))
    THEN likely_error(e.first)
    ELSE likely_error(e.second)

\* OrError::likely_error
OrError_likely_error(e) ==
    LET first_base == likely_error(e.first)
        second_base == likely_error(e.second)
    IN  IF CodeLoc_position(loc(first_base)) >= CodeLoc_position(loc(second_base))
        THEN first_base
        ELSE second_base

\* AndError::likely_error
AndError_likely_error(e) == likely_error(e.inner)

\* BetweenError::likely_error
BetweenError_likely_error(e) == likely_error(e.inner)

\* ErrorNode::likely_error, by the type of the error value
likely_error(e) ==
    CASE e.kind = "BothFailed" -> OrError_likely_error(e)
      [] e.kind \in {"FirstParser", "SecondParser"} -> AndError_likely_error(e)
      [] e.kind \in {"OpenDelimiter", "Content", "CloseDelimiter"} ->
             BetweenError_likely_error(e)
      [] e.kind = "ThenOptionallyError" -> likely_error(e.inner)
      [] OTHER -> e

\* the helper create_error / create_string_error and its inline copies
create_error(c, message) ==
    SyntaxError(message, CodeLoc_new(inner(c)[1], inner(c)[2]))

-----------------------------------------------------------------------------
(* Leaf parsers *)

ByteParser == [kind |-> "ByteParser"]
IsByteParser(expected) == [kind |-> "IsByteParser", expected |-> expected]
BetweenBytesParser(start, end) ==
    [kind |-> "BetweenBytesParser", start |-> start, end |-> end]
CharParser == [kind |-> "CharParser"]
IsStringParser(expected) == [kind |-> "IsStringParser", expected |-> expected]
DefaultParser(default) == [kind |-> "DefaultParser", default |-> default]

\* byte.rs ByteParser::parse (atomic.rs AtomicParser::parse is the same)
ByteParser_parse(c) ==
    LET v == value(c)
    IN  IF IsOk(v) THEN Ok(v.out, next(c), <<>>) ELSE v

IsByteParser_parse(p, c) ==
    LET v == value(c)
    IN  IF IsOk(v)
        THEN IF v.out = p.expected
             THEN Ok(v.out, next(c), <<>>)
             ELSE Err(create_error(c, "expected byte"), <<>>)
        ELSE v

BetweenBytesParser_parse(p, c) ==
    LET v == value(c)
    IN  IF IsOk(v)
        THEN IF v.out >= p.start /\ v.out <= p.end
             THEN Ok(v.out, next(c), <<>>)
             ELSE Err(create_error(c, "expected byte in range"), <<>>)
        ELSE v

DefaultParser_parse(p, c) == Ok(p.default, c, <<>>)

-----------------------------------------------------------------------------
(* utf8/char.rs: CharParser.  On bytes 0..255: (b & 0xC0) != 0x80 is       *)
(* b \div 64 # 2; b & 0x1F, b & 0x0F, b & 0x07, b & 0x3F are b % 32, b % 16, *)
(* b % 8, b % 64; x << 6 is x * 64; the | of disjoint bit fields is +.     *)

IsContinuation(b) == b \div 64 = 2

\* char::from_u32: None for a surrogate and above 0x10FFFF
char_from_u32(cp) ==
    IF (cp >= 55296 /\ cp <= 57343) \/ cp > 1114111
    THEN [some |-> FALSE]
    ELSE [some |-> TRUE, ch |-> cp]

\* the byte_parser.parse(..).map_err(incomplete) step of every branch
ReadContinuation(at) ==
    IF IsOk(ByteParser_parse(at)) THEN ByteParser_parse(at)
    ELSE Err(create_error(at, "incomplete UTF-8 sequence"), <<>>)

\* the two-byte range check with the bug of accepting an overlong encoding
CharParser_two_check_lenient(c, cp, after) == Ok(cp, after, <<>>)

\* the two-byte branch, b1 in 0xC0..0xDF: 110xxxxx 10xxxxxx
CharParser_two_check(c, cp, after) ==
    IF cp < 128
    THEN Err(create_error(c, "overlong UTF-8 encoding"), <<>>)
    ELSE Ok(cp, after, <<>>)

CharParser_two_read(c, b1, r2) ==
    IF ~IsOk(r2) THEN r2
    ELSE IF ~IsContinuation(r2.out)
    THEN Err(create_error(r2.cursor, "invalid UTF-8 continuation byte"), <<>>)
    ELSE CharParser_two_check(c, (b1 % 32) * 64 + (r2.out % 64), r2.cursor)

CharParser_two(c, b1, current_cursor) ==
    CharParser_two_read(c, b1, ReadContinuation(current_cursor))

\* the three-byte branch, b1 in 0xE0..0xEF: 1110xxxx 10xxxxxx 10xxxxxx
CharParser_three_check(c, cp, after) ==
    IF cp < 2048
    THEN Err(create_error(c, "overlong UTF-8 encoding"), <<>>)
    ELSE IF cp >= 55296 /\ cp <= 57343
    THEN Err(create_error(c, "UTF-16 surrogate in UTF-8"), <<>>)
    ELSE Ok(cp, after, <<>>)

CharParser_three_read3(c, b1, b2, r3) ==
    IF ~IsOk(r3) THEN r3
    ELSE IF ~IsContinuation(b2) \/ ~IsContinuation(r3.out)
    THEN Err(create_error(r3.cursor, "invalid UTF-8 continuation byte"), <<>>)
    ELSE CharParser_three_check(
             c, (b1 % 16) * 4096 + (b2 % 64) * 64 + (r3.out % 64), r3.cursor)

\* the three-byte branch with the bug of validating the second byte before
\* the third is read
CharParser_three_read2_eager(c, b1, r2) ==
    IF ~IsOk(r2) THEN r2
    ELSE IF ~IsContinuation(r2.out)
    THEN Err(create_error(r2.cursor, "invalid UTF-8 continuation byte"), <<>>)
    ELSE CharParser_three_read3(c, b1, r2.out, ReadContinuation(r2.cursor))

CharParser_three_read2(c, b1, r2) ==
    IF ~IsOk(r2) THEN r2
    ELSE CharParser_three_read3(c, b1, r2.out, ReadContinuation(r2.cursor))

CharParser_three(c, b1, current_cursor) ==
    CharParser_three_read2(c, b1, ReadContinuation(current_cursor))

\* the four-byte branch, b1 in 0xF0..0xF7: 11110xxx 10xxxxxx 10xxxxxx 10xxxxxx
CharParser_four_check(c, cp, after) ==
    IF cp < 65536
    THEN Err(create_error(c, "overlong UTF-8 encoding"), <<>>)
    ELSE IF cp > 1114111
    THEN Err(create_error(c, "codepoint beyond Unicode range"), <<>>)
    ELSE Ok(cp, after, <<>>)

\* the four-byte branch with the bug of dropping the bits of the last byte
CharParser_four_read4_short(c, b1, b2, b3, r4) ==
    IF ~IsOk(r4) THEN r4
    ELSE IF ~IsContinuation(b2) \/ ~IsContinuation(b3) \/ ~IsContinuation(r4.out)
    THEN Err(create_error(r4.cursor, "invalid UTF-8 continuation byte"), <<>>)
    ELSE CharParser_four_check(
             c, ((b1 % 8) * 262144) + ((b2 % 64) * 4096) + ((b3 % 64) * 64), r4.cursor)

CharParser_four_read4(c, b1, b2, b3, r4) ==
    IF ~IsOk(r4) THEN r4
    ELSE IF ~IsContinuation(b2) \/ ~IsContinuation(b3) \/ ~IsContinuation(r4.out)
    THEN Err(create_error(r4.cursor, "invalid UTF-8 continuation byte"), <<>>)
    ELSE CharParser_four_check(
             c,
             (b1 % 8) * 262144 + (b2 % 64) * 4096 + (b3 % 64) * 64 + (r4.out % 64),
             r4.cursor)

CharParser_four_read3(c, b1, b2, r3) ==
    IF ~IsOk(r3) THEN r3
    ELSE CharParser_four_read4(c, b1, b2, r3.out, ReadContinuation(r3.cursor))

CharParser_four_read2(c, b1, r2) ==
    IF ~IsOk(r2) THEN r2
    ELSE CharParser_four_read3(c, b1, r2.out, ReadContinuation(r2.cursor))

CharParser_four(c, b1, current_cursor) ==
    CharParser_four_read2(c, b1, ReadContinuation(current_cursor))

\* step 2 of CharParser::parse: the branch by the lead byte
CharParser_decode(c, b1, current_cursor) ==
    IF b1 < 128 THEN Ok(b1, current_cursor, <<>>)
    ELSE IF b1 < 192 THEN Err(create_error(c, "invalid UTF-8 start byte"), <<>>)
    ELSE IF b1 < 224 THEN CharParser_two(c, b1, current_cursor)
    ELSE IF b1 < 240 THEN CharParser_three(c, b1, current_cursor)
    ELSE IF b1 < 248 THEN CharParser_four(c, b1, current_cursor)
    ELSE Err(create_error(c, "invalid UTF-8 start byte"), <<>>)

\* step 3 of CharParser::parse: char::from_u32 on the decoded codepoint
CharParser_convert(c, decoded) ==
    IF ~IsOk(decoded) THEN decoded
    ELSE IF char_from_u32(decoded.out).some
    THEN Ok(char_from_u32(decoded.out).ch, decoded.cursor, <<>>)
    ELSE Err(create_error(c, "invalid Unicode codepoint"), <<>>)

\* step 1 of CharParser::parse: the lead byte
CharParser_lead(c, r1) ==
    IF ~IsOk(r1) THEN r1
    ELSE CharParser_convert(c, CharParser_decode(c, r1.out, r1.cursor))

CharParser_parse(c) == CharParser_lead(c, ByteParser_parse(c))

\* utf8/string.rs IsStringParser::parse: char().parse per expected char
RECURSIVE IsStringParser_loop(_, _, _)

IsStringParser_step(expected, i, current_cursor, r) ==
    IF IsOk(r)
    THEN IF r.out = expected[i]
         THEN IsStringParser_loop(expected, i + 1, r.cursor)
         ELSE Err(create_error(current_cursor, "expected char, found other"), <<>>)
    ELSE Err(create_error(current_cursor, "expected char, reached end of input"), <<>>)

IsStringParser_loop(expected, i, current_cursor) ==
    IF i > Len(expected) THEN Ok(expected, current_cursor, <<>>)
    ELSE IsStringParser_step(expected, i, current_cursor, CharParser_parse(current_cursor))

IsStringParser_parse(p, c) == IsStringParser_loop(p.expected, 1, c)

-----------------------------------------------------------------------------
(* Combinators.  parse(p, c) is the dynamic dispatch p.parse(c). *)

And(parser1, parser2) == [kind |-> "And", parser1 |-> parser1, parser2 |-> parser2]
Or(parser1, parser2) == [kind |-> "Or", parser1 |-> parser1, parser2 |-> parser2]
Not(p) == [kind |-> "Not", parser |-> p]
Many(p) == [kind |-> "Many", parser |-> p]
Some(p) == [kind |-> "Some", parser |-> p]
All(p) == [kind |-> "All", parser |-> p]
SeparatedList(p, separator) ==
    [kind |-> "SeparatedList", parser |-> p, separator |-> separator]
UIntParser == [kind |-> "UIntParser"]
IntParser == [kind |-> "IntParser"]
\* u64() with its value written in digits
UIntParser_wide == [kind |-> "UIntParser_wide"]
IntDotUintParser == [kind |-> "IntDotUintParser"]
Map(p, mapper) == [kind |-> "Map", parser |-> p, mapper |-> mapper]
Position(p) == [kind |-> "Position", parser |-> p]
FilterParser(p, predicate, error_message) ==
    [kind |-> "FilterParser", parser |-> p, predicate |-> predicate,
     error_message |-> error_message]
TakeUntilParser(p, predicate) ==
    [kind |-> "TakeUntilParser", parser |-> p, predicate |-> predicate]
Between(open, content, close) ==
    [kind |-> "Between", open |-> open, content |-> content, close |-> close]
WhitespaceBetween(open, content, close) ==
    [kind |-> "WhitespaceBetween", open |-> open, content |-> content, close |-> close]
WhitespaceSeparatedList(p, separator) ==
    [kind |-> "WhitespaceSeparatedList", parser |-> p, separator |-> separator]
ThenOptionally(p1, p2) == [kind |-> "ThenOptionally", parser1 |-> p1, parser2 |-> p2]
Lazy(factory) == [kind |-> "Lazy", factory |-> factory]

\* lazy.rs Lazy::new: the factory is stored; nothing is called
Lazy_new(factory) == [tag |-> "Ok", out |-> Lazy(factory), calls |-> <<>>]

\* char::is_whitespace: the code points with the White_Space property
char_is_whitespace(ch) ==
    \/ ch \in 9..13
    \/ ch \in {32, 133, 160, 5760, 8232, 8233, 8239, 8287, 12288}
    \/ ch \in 8192..8202

\* the closures the grammars of this model hand to filter() and take_until()
apply_predicate(predicate, v) ==
    CASE predicate = "is_whitespace" -> char_is_whitespace(v)
      [] predicate = "is_a" -> v = 97
      [] predicate = "is_b" -> v = 98
      [] predicate = "is_c" -> v = 99
      [] predicate = "never" -> FALSE

\* utf8/whitespace/mod.rs unicode_whitespace()
unicode_whitespace ==
    FilterParser(CharParser, "is_whitespace", "expected Unicode whitespace")

\* the closures the grammars of this model hand to lazy(): what a call of
\* the factory returns
apply_factory(factory) ==
    CASE factory = "is_byte_a" -> IsByteParser(97)
      [] factory = "many_a" -> Many(IsByteParser(97))
      [] factory = "a_then_b" -> And(IsByteParser(97), IsByteParser(98))
      [] factory = "nested" ->
             Or(Map(And(IsByteParser(97), Lazy("nested")), "first"), IsByteParser(98))

\* the record of one call of a factory, in the list of calls of a result
FactoryCall(factory, c) ==
    [parser |-> [kind |-> "factory", factory |-> factory], cursor |-> c]

\* the closures the grammars of this model hand to map()
apply_mapper(mapper, v) ==
    CASE mapper = "first" -> v[1]
      [] mapper = "first_first" -> v[1][1]
      [] mapper = "second" -> v[2]
      [] mapper = "len" -> Len(v)
      [] mapper = "pair" -> <<v, v>>

\* the record of one application of a mapper, in the list of calls of a
\* result: c is the cursor that came with the value it was applied to
MapperCall(mapper, c) ==
    [parser |-> [kind |-> "mapper", mapper |-> mapper], cursor |-> c]

RECURSIVE parse(_, _)

\* Map::parse with the bug of returning the cursor it was given
Map_parse_rewound(p, c) ==
    LET r == parse(p.parser, c)
    IN  IF IsOk(r)
        THEN Ok(apply_mapper(p.mapper, r.out), c,
                r.calls \o <<MapperCall(p.mapper, r.cursor)>>)
        ELSE r

\* map.rs Map::parse
Map_parse(p, c) ==
    LET r == parse(p.parser, c)
    IN  IF IsOk(r)
        THEN Ok(apply_mapper(p.mapper, r.out), r.cursor,
                r.calls \o <<MapperCall(p.mapper, r.cursor)>>)
        ELSE r

\* And::parse with the bug of running the second parser on the cursor the
\* first one was given
And_parse_restart(p, c) ==
    LET r1 == parse(p.parser1, c)
    IN  IF IsErr(r1) THEN Err(FirstParser(r1.err), r1.calls)
        ELSE IF ~IsOk(r1) THEN r1
        ELSE LET r2 == parse(p.parser2, c)
             IN  IF IsErr(r2) THEN Err(SecondParser(r2.err), r1.calls \o r2.calls)
                 ELSE IF ~IsOk(r2) THEN [r2 EXCEPT !.calls = r1.calls \o @]
                 ELSE Ok(<<r1.out, r2.out>>, r2.cursor, r1.calls \o r2.calls)

\* and.rs And::parse
And_parse(p, c) ==
    LET r1 == parse(p.parser1, c)
    IN  IF IsErr(r1) THEN Err(FirstParser(r1.err), r1.calls)
        ELSE IF ~IsOk(r1) THEN r1
        ELSE LET r2 == parse(p.parser2, r1.cursor)
             IN  IF IsErr(r2) THEN Err(SecondParser(r2.err), r1.calls \o r2.calls)
                 ELSE IF ~IsOk(r2) THEN [r2 EXCEPT !.calls = r1.calls \o @]
                 ELSE Ok(<<r1.out, r2.out>>, r2.cursor, r1.calls \o r2.calls)

\* Or::parse with the bug of resuming after the failed first alternative:
\* the second alternative starts one element into the input
Or_parse_resumed(p, c) ==
    LET r1 == parse(p.parser1, c)
    IN  IF ~IsErr(r1) THEN r1
        ELSE LET r2 == parse(p.parser2, next(c))
             IN  IF IsErr(r2)
                 THEN Err(BothFailed(r1.err, r2.err), r1.calls \o r2.calls)
                 ELSE [r2 EXCEPT !.calls = r1.calls \o @]

\* Or::parse with the bug of running the second alternative before looking
\* at the result of the first
Or_parse_eager(p, c) ==
    LET r1 == parse(p.parser1, c)
        r2 == parse(p.parser2, c)
    IN  IF ~IsErr(r1) THEN [r1 EXCEPT !.calls = @ \o r2.calls]
        ELSE IF IsErr(r2)
             THEN Err(BothFailed(r1.err, r2.err), r1.calls \o r2.calls)
             ELSE [r2 EXCEPT !.calls = r1.calls \o @]

\* or.rs Or::parse
Or_parse(p, c) ==
    LET r1 == parse(p.parser1, c)
    IN  IF ~IsErr(r1) THEN r1
        ELSE LET r2 == parse(p.parser2, c)
             IN  IF IsErr(r2)
                 THEN Err(BothFailed(r1.err, r2.err), r1.calls \o r2.calls)
                 ELSE [r2 EXCEPT !.calls = r1.calls \o @]

\* Not::parse with the bug of locating the error where the child stopped
Not_parse_at_match(p, c) ==
    LET r == parse(p.parser, c)
    IN  IF IsOk(r)
        THEN Err(create_error(r.cursor, "negative lookahead failed: unexpected match"),
                 r.calls)
        ELSE IF IsErr(r) THEN Ok(<<>>, c, r.calls)
        ELSE r

\* Not::parse with the bug of returning a cursor at the start of the source
Not_parse_rewound(p, c) ==
    LET r == parse(p.parser, c)
    IN  IF IsOk(r)
        THEN Err(create_error(c, "negative lookahead failed: unexpected match"), r.calls)
        ELSE IF IsErr(r) THEN Ok(<<>>, AtomicCursor_new(source(c)), r.calls)
        ELSE r

\* not.rs Not::parse
Not_parse(p, c) ==
    LET r == parse(p.parser, c)
    IN  IF IsOk(r)
        THEN Err(create_error(c, "negative lookahead failed: unexpected match"), r.calls)
        ELSE IF IsErr(r) THEN Ok(<<>>, c, r.calls)
        ELSE r

\* many.rs Many::parse: the loop, one application of the child per turn
RECURSIVE Many_loop(_, _, _, _)
Many_loop(p, c, results, calls) ==
    IF Len(results) >= MaxApps THEN Running(calls)
    ELSE LET r == parse(p.parser, c)
         IN  IF IsOk(r)
             THEN Many_loop(p, r.cursor, Append(results, r.out), calls \o r.calls)
             ELSE IF IsErr(r) THEN Ok(results, c, calls \o r.calls)
             ELSE Running(calls \o r.calls)

\* Many::parse with the bug of consuming one element of the failed attempt
Many_parse_consuming(p, c) ==
    IF IsOk(Many_loop(p, c, <<>>, <<>>))
    THEN [Many_loop(p, c, <<>>, <<>>) EXCEPT !.cursor = next(@)]
    ELSE Many_loop(p, c, <<>>, <<>>)

Many_parse(p, c) == Many_loop(p, c, <<>>, <<>>)

\* some.rs Some::parse: the first application must succeed, then the loop
RECURSIVE Some_loop(_, _, _, _)
Some_loop(p, c, results, calls) ==
    IF Len(results) >= MaxApps THEN Running(calls)
    ELSE LET r == parse(p.parser, c)
         IN  IF IsOk(r)
             THEN Some_loop(p, r.cursor, Append(results, r.out), calls \o r.calls)
             ELSE IF IsErr(r) THEN Ok(results, c, calls \o r.calls)
             ELSE Running(calls \o r.calls)

\* Some::parse with the bug of accepting zero matches
Some_parse_lenient(p, c) == Some_loop(p, c, <<>>, <<>>)

Some_parse(p, c) ==
    LET first == parse(p.parser, c)
    IN  IF IsOk(first) THEN Some_loop(p, first.cursor, <<first.out>>, first.calls)
        ELSE first

\* all.rs All::parse
RECURSIVE All_loop(_, _, _, _)
All_loop(p, c, results, calls) ==
    IF eos(c) THEN Ok(results, c, calls)
    ELSE IF Len(results) >= MaxApps THEN Running(calls)
    ELSE LET r == parse(p.parser, c)
         IN  IF IsOk(r)
             THEN All_loop(p, r.cursor, Append(results, r.out), calls \o r.calls)
             ELSE [r EXCEPT !.calls = calls \o @]

\* All::parse with the bug of swallowing the failure of its child, as Many does
All_parse_partial(p, c) ==
    IF IsErr(All_loop(p, c, <<>>, <<>>))
    THEN Ok(<<>>, c, All_loop(p, c, <<>>, <<>>).calls)
    ELSE All_loop(p, c, <<>>, <<>>)

All_parse(p, c) == All_loop(p, c, <<>>, <<>>)

\* SeparatedList::parse with the bug of tolerating a trailing separator
RECURSIVE SeparatedList_loop_tolerant(_, _, _, _)
SeparatedList_loop_tolerant(p, c, results, calls) ==
    IF Len(results) >= MaxApps THEN Running(calls)
    ELSE LET s == parse(p.separator, c)
         IN  IF IsErr(s) THEN Ok(results, c, calls \o s.calls)
             ELSE IF ~IsOk(s) THEN Running(calls \o s.calls)
             ELSE LET r == parse(p.parser, s.cursor)
                  IN  IF IsOk(r)
                      THEN SeparatedList_loop_tolerant(p, r.cursor, Append(results, r.out),
                                                       calls \o s.calls \o r.calls)
                      ELSE Ok(results, s.cursor, calls \o s.calls \o r.calls)

\* separated_list.rs SeparatedList::parse
RECURSIVE SeparatedList_loop(_, _, _, _)
SeparatedList_loop(p, c, results, calls) ==
    IF Len(results) >= MaxApps THEN Running(calls)
    ELSE LET s == parse(p.separator, c)
         IN  IF IsErr(s) THEN Ok(results, c, calls \o s.calls)
             ELSE IF ~IsOk(s) THEN Running(calls \o s.calls)
             ELSE LET r == parse(p.parser, s.cursor)
                  IN  IF IsOk(r)
                      THEN SeparatedList_loop(p, r.cursor, Append(results, r.out),
                                              calls \o s.calls \o r.calls)
                      ELSE [r EXCEPT !.calls = calls \o s.calls \o @]

SeparatedList_parse(p, c) ==
    LET first == parse(p.parser, c)
    IN  IF IsOk(first)
        THEN SeparatedList_loop(p, first.cursor, <<first.out>>, first.calls)
        ELSE first

\* the whitespace-aware list with the bug of keeping the whitespace it
\* skipped before a separator that did not match
WhitespaceSeparatedList_break_skipped(c, w, results, calls) ==
    Ok(results, w.cursor, calls)

\* utf8/whitespace/separated_list.rs SeparatedList::parse: `Err(_) => break`
\* leaves the loop with the cursor after the last item, whatever the attempt
\* w at whitespace and a separator has read
WhitespaceSeparatedList_break(c, w, results, calls) == Ok(results, c, calls)

RECURSIVE WhitespaceSeparatedList_loop(_, _, _, _)

\* many(unicode_whitespace()) after the separator, then the item, which is
\* required
WhitespaceSeparatedList_item(p, c, results, calls, w2) ==
    IF IsErr(w2) THEN WhitespaceSeparatedList_break(c, w2, results, calls \o w2.calls)
    ELSE IF ~IsOk(w2) THEN [w2 EXCEPT !.calls = calls \o @]
    ELSE LET r == parse(p.parser, w2.cursor)
         IN  IF IsOk(r)
             THEN WhitespaceSeparatedList_loop(p, r.cursor, Append(results, r.out),
                                               calls \o w2.calls \o r.calls)
             ELSE [r EXCEPT !.calls = calls \o w2.calls \o @]

\* many(unicode_whitespace()) before the separator, then the separator
WhitespaceSeparatedList_separator(p, c, results, calls, w1) ==
    IF IsErr(w1) THEN WhitespaceSeparatedList_break(c, w1, results, calls \o w1.calls)
    ELSE IF ~IsOk(w1) THEN [w1 EXCEPT !.calls = calls \o @]
    ELSE LET s == parse(p.separator, w1.cursor)
         IN  IF IsErr(s)
             THEN WhitespaceSeparatedList_break(c, w1, results, calls \o w1.calls \o s.calls)
             ELSE IF ~IsOk(s) THEN [s EXCEPT !.calls = calls \o w1.calls \o @]
             ELSE WhitespaceSeparatedList_item(
                      p, c, results, calls \o w1.calls \o s.calls,
                      parse(Many(unicode_whitespace), s.cursor))

WhitespaceSeparatedList_loop(p, c, results, calls) ==
    IF Len(results) >= MaxApps THEN Running(calls)
    ELSE WhitespaceSeparatedList_separator(
             p, c, results, calls, parse(Many(unicode_whitespace), c))

WhitespaceSeparatedList_parse(p, c) ==
    LET first == parse(p.parser, c)
    IN  IF IsOk(first)
        THEN WhitespaceSeparatedList_loop(p, first.cursor, <<first.out>>, first.calls)
        ELSE first

\* Option<P2::Output>
Option_Some(v) == [some |-> TRUE, value |-> v]
Option_None == [some |-> FALSE]

\* ThenOptionally::parse with the bug of requiring the second parser
ThenOptionally_parse_required(p, c) ==
    LET r1 == parse(p.parser1, c)
    IN  IF IsErr(r1) THEN Err(ThenOptionallyError_FirstParser(r1.err), r1.calls)
        ELSE IF ~IsOk(r1) THEN r1
        ELSE LET r2 == parse(p.parser2, r1.cursor)
             IN  IF IsOk(r2)
                 THEN Ok(<<r1.out, Option_Some(r2.out)>>, r2.cursor, r1.calls \o r2.calls)
                 ELSE IF IsErr(r2)
                 THEN Err(ThenOptionallyError_FirstParser(r2.err), r1.calls \o r2.calls)
                 ELSE [r2 EXCEPT !.calls = r1.calls \o @]

\* then_optionally.rs ThenOptionally::parse
ThenOptionally_parse(p, c) ==
    LET r1 == parse(p.parser1, c)
    IN  IF IsErr(r1) THEN Err(ThenOptionallyError_FirstParser(r1.err), r1.calls)
        ELSE IF ~IsOk(r1) THEN r1
        ELSE LET r2 == parse(p.parser2, r1.cursor)
             IN  IF IsOk(r2)
                 THEN Ok(<<r1.out, Option_Some(r2.out)>>, r2.cursor, r1.calls \o r2.calls)
                 ELSE IF IsErr(r2)
                 THEN Ok(<<r1.out, Option_None>>, r1.cursor, r1.calls \o r2.calls)
                 ELSE [r2 EXCEPT !.calls = r1.calls \o @]

\* position.rs Span
Span_new(source_, start, end) == [source |-> source_, start |-> start, end |-> end]

\* Span::len: end - start on usize
Span_len(span) == span.end - span.start

\* Span::slice: &source[start..end]
Span_slice(span) == SubSeq(span.source, span.start + 1, span.end)

\* Position::parse with the bug of a span that starts at the start of the source
Position_parse_from_origin(p, c) ==
    LET r == parse(p.parser, c)
    IN  IF IsOk(r)
        THEN Ok(<<r.out, Span_new(source(c), 0, position(r.cursor))>>, r.cursor, r.calls)
        ELSE r

\* position.rs Position::parse
Position_parse(p, c) ==
    LET r == parse(p.parser, c)
    IN  IF IsOk(r)
        THEN Ok(<<r.out, Span_new(source(c), position(c), position(r.cursor))>>,
                r.cursor, r.calls)
        ELSE r

\* FilterParser::parse with the bug of locating the error where the child
\* stopped
FilterParser_parse_at_end(p, c) ==
    LET r == parse(p.parser, c)
    IN  IF IsErr(r) THEN Err(ParserError(r.err), r.calls)
        ELSE IF ~IsOk(r) THEN r
        ELSE IF apply_predicate(p.predicate, r.out) THEN Ok(r.out, r.cursor, r.calls)
        ELSE Err(FilterFailed(SyntaxError(p.error_message,
                                          CodeLoc_new(inner(r.cursor)[1],
                                                      inner(r.cursor)[2]))),
                 r.calls)

\* filter.rs FilterParser::parse
FilterParser_parse(p, c) ==
    LET r == parse(p.parser, c)
    IN  IF IsErr(r) THEN Err(ParserError(r.err), r.calls)
        ELSE IF ~IsOk(r) THEN r
        ELSE IF apply_predicate(p.predicate, r.out) THEN Ok(r.out, r.cursor, r.calls)
        ELSE Err(FilterFailed(SyntaxError(p.error_message,
                                          CodeLoc_new(inner(c)[1], inner(c)[2]))),
                 r.calls)

\* take_until.rs TakeUntilParser::parse
RECURSIVE TakeUntil_loop(_, _, _, _)
TakeUntil_loop(p, current_cursor, results, calls) ==
    IF current_cursor.kind = "EndOfFile" THEN Ok(results, current_cursor, calls)
    ELSE IF Len(results) >= MaxApps THEN Running(calls)
    ELSE LET r == parse(p.parser, current_cursor)
         IN  IF IsOk(r)
             THEN IF apply_predicate(p.predicate, r.out)
                  THEN Ok(results, current_cursor, calls \o r.calls)
                  ELSE TakeUntil_loop(p, r.cursor, Append(results, r.out),
                                      calls \o r.calls)
             ELSE [r EXCEPT !.calls = calls \o @]

\* TakeUntilParser::parse with the bug of consuming the element that stops it
TakeUntilParser_parse_consuming(p, c) ==
    IF IsOk(TakeUntil_loop(p, c, <<>>, <<>>))
    THEN [TakeUntil_loop(p, c, <<>>, <<>>) EXCEPT !.cursor = next(@)]
    ELSE TakeUntil_loop(p, c, <<>>, <<>>)

TakeUntilParser_parse(p, c) == TakeUntil_loop(p, c, <<>>, <<>>)

\* utf8/whitespace/between.rs Between::parse: open, many(unicode_whitespace()),
\* content, many(unicode_whitespace()), close; many never fails, so the
\* OpenWhitespace and CloseWhitespace errors are never built
WhitespaceBetween_close(p, content_val, c, calls) ==
    LET w == parse(Many(unicode_whitespace), c)
    IN  IF ~IsOk(w) THEN [w EXCEPT !.calls = calls \o @]
        ELSE LET r == parse(p.close, w.cursor)
             IN  IF IsErr(r) THEN Err(CloseDelimiter(r.err), calls \o w.calls \o r.calls)
                 ELSE IF ~IsOk(r) THEN [r EXCEPT !.calls = calls \o w.calls \o @]
                 ELSE Ok(content_val, r.cursor, calls \o w.calls \o r.calls)

WhitespaceBetween_content(p, c, calls) ==
    LET w == parse(Many(unicode_whitespace), c)
    IN  IF ~IsOk(w) THEN [w EXCEPT !.calls = calls \o @]
        ELSE LET r == parse(p.content, w.cursor)
             IN  IF IsErr(r) THEN Err(Content(r.err), calls \o w.calls \o r.calls)
                 ELSE IF ~IsOk(r) THEN [r EXCEPT !.calls = calls \o w.calls \o @]
                 ELSE WhitespaceBetween_close(p, r.out, r.cursor,
                                              calls \o w.calls \o r.calls)

WhitespaceBetween_parse(p, c) ==
    LET r == parse(p.open, c)
    IN  IF IsErr(r) THEN Err(OpenDelimiter(r.err), r.calls)
        ELSE IF ~IsOk(r) THEN r
        ELSE WhitespaceBetween_content(p, r.cursor, r.calls)

\* Between::parse with the bug of skipping whitespace around the content
Between_parse_skipping(p, c) == WhitespaceBetween_parse(p, c)

\* between.rs Between::parse
Between_parse(p, c) ==
    LET r1 == parse(p.open, c)
    IN  IF IsErr(r1) THEN Err(OpenDelimiter(r1.err), r1.calls)
        ELSE IF ~IsOk(r1) THEN r1
        ELSE LET r2 == parse(p.content, r1.cursor)
             IN  IF IsErr(r2) THEN Err(Content(r2.err), r1.calls \o r2.calls)
                 ELSE IF ~IsOk(r2) THEN [r2 EXCEPT !.calls = r1.calls \o @]
                 ELSE LET r3 == parse(p.close, r2.cursor)
                      IN  IF IsErr(r3)
                          THEN Err(CloseDelimiter(r3.err),
                                   r1.calls \o r2.calls \o r3.calls)
                          ELSE IF ~IsOk(r3)
                          THEN [r3 EXCEPT !.calls = r1.calls \o r2.calls \o @]
                          ELSE Ok(r2.out, r3.cursor, r1.calls \o r2.calls \o r3.calls)

\* Lazy::parse with the bug of building the parser twice
Lazy_parse_twice(p, c) ==
    LET r == parse(apply_factory(p.factory), c)
    IN  [r EXCEPT !.calls = <<FactoryCall(p.factory, c), FactoryCall(p.factory, c)>> \o @]

\* lazy.rs Lazy::parse
Lazy_parse(p, c) ==
    LET r == parse(apply_factory(p.factory), c)
    IN  [r EXCEPT !.calls = <<FactoryCall(p.factory, c)>> \o @]

\* ascii/number/u64.rs: str::parse::<u64> of a run of ASCII digits.  The
\* value of a run that fits is computed; whether it fits is decided on the
\* digits, against the digits of u64::MAX = 18446744073709551615.
RECURSIVE DecimalValue(_)
DecimalValue(digits) ==
    IF Len(digits) = 0 THEN 0
    ELSE DecimalValue(SubSeq(digits, 1, Len(digits) - 1)) * 10
         + (digits[Len(digits)] - 48)

RECURSIVE StripZeros(_)
StripZeros(digits) ==
    IF Len(digits) > 1 /\ digits[1] = 48 THEN StripZeros(Tail(digits)) ELSE digits

RECURSIVE DigitsGreater(_, _)
DigitsGreater(x, y) ==
    IF Len(x) # Len(y) THEN Len(x) > Len(y)
    ELSE IF Len(x) = 0 THEN FALSE
    ELSE IF x[1] # y[1] THEN x[1] > y[1]
    ELSE DigitsGreater(Tail(x), Tail(y))

U64MaxDigits ==
    <<49, 56, 52, 52, 54, 55, 52, 52, 48, 55, 51, 55, 48, 57, 53, 53, 49, 54, 49, 53>>

\* ascii/number/u64.rs UIntParser::parse, with the value it returns written
\* in decimal digits (what to_string gives of it): a u64 has up to twenty
\* digits, more than the integers of this model hold
UIntParser_digits(c) ==
    LET r == Some_parse(Some(BetweenBytesParser(48, 57)), c)
    IN  IF ~IsOk(r) THEN [r EXCEPT !.calls = <<>>]
        ELSE IF DigitsGreater(StripZeros(r.out), U64MaxDigits)
        THEN Err(create_error(r.cursor, "number too large"), <<>>)
        ELSE Ok(StripZeros(r.out), r.cursor, <<>>)

\* ascii/number/u64.rs UIntParser::parse, with the value as an integer
UIntParser_parse(c) ==
    IF IsOk(UIntParser_digits(c))
    THEN [UIntParser_digits(c) EXCEPT !.out = DecimalValue(@)]
    ELSE UIntParser_digits(c)

\* i64::MAX = 9223372036854775807 and i64::MAX as u64 + 1, in digits
I64MaxDigits ==
    <<57, 50, 50, 51, 51, 55, 50, 48, 51, 54, 56, 53, 52, 55, 55, 53, 56, 48, 55>>
I64MinMagnitudeDigits ==
    <<57, 50, 50, 51, 51, 55, 50, 48, 51, 54, 56, 53, 52, 55, 55, 53, 56, 48, 56>>

\* an i64, as its sign and the digits of its magnitude
SignedValue(negative, digits) ==
    [negative |-> negative /\ digits # <<48>>, digits |-> digits]

\* a point where the arithmetic of the code overflows: a build with overflow
\* checks panics there, a build without them goes on with the wrapped value
Overflow(wrapped) == [tag |-> "Overflow", wrapped |-> wrapped, calls |-> <<>>]

\* what the builds of the program make of a result
Builds(r) ==
    IF r.tag = "Overflow" THEN {[tag |-> "Panic", calls |-> <<>>], r.wrapped} ELSE {r}

\* i64.rs: the sign is applied to value with the overflow check `value >
\* i64::MAX as u64 + 1` and then -(value as i64).  For value = 2^63 the check
\* passes, value as i64 is i64::MIN, and negating i64::MIN overflows: it
\* wraps to i64::MIN.
IntParser_negate(r) ==
    IF DigitsGreater(r.out, I64MinMagnitudeDigits)
    THEN Err(create_error(r.cursor, "negative number too large"), <<>>)
    ELSE IF r.out = I64MinMagnitudeDigits
    THEN Overflow(Ok(SignedValue(TRUE, I64MinMagnitudeDigits), r.cursor, <<>>))
    ELSE Ok(SignedValue(TRUE, r.out), r.cursor, <<>>)

IntParser_positive(r) ==
    IF DigitsGreater(r.out, I64MaxDigits)
    THEN Err(create_error(r.cursor, "positive number too large"), <<>>)
    ELSE Ok(SignedValue(FALSE, r.out), r.cursor, <<>>)

\* ascii/number/i64.rs IntParser::parse
IntParser_signed(is_negative, r) ==
    IF ~IsOk(r) THEN r
    ELSE IF is_negative THEN IntParser_negate(r)
    ELSE IntParser_positive(r)

IntParser_parse(c) ==
    IF IsOk(value(c)) /\ value(c).out = 45
    THEN IntParser_signed(TRUE, UIntParser_digits(next(c)))
    ELSE IF IsOk(value(c)) /\ value(c).out = 43
    THEN IntParser_signed(FALSE, UIntParser_digits(next(c)))
    ELSE IntParser_signed(FALSE, UIntParser_digits(c))

\* ascii/number/f64.rs
MAX_FRACTIONAL_DIGITS == 15

\* 2^53 = 9007199254740992: every integer up to it is an f64
TwoTo53Digits == <<57, 48, 48, 55, 49, 57, 57, 50, 53, 52, 55, 52, 48, 57, 57, 50>>

\* half of the number written in digits, by long division
RECURSIVE Halve(_, _)
Halve(digits, carry) ==
    IF Len(digits) = 0 THEN <<>>
    ELSE <<48 + ((carry * 10 + (digits[1] - 48)) \div 2)>>
         \o Halve(Tail(digits), (carry * 10 + (digits[1] - 48)) % 2)

\* the integer is an f64: it is at most 2^53, or it is even and its half is
\* an f64 (a mantissa of 53 bits and a power of two)
RECURSIVE IsF64Integer(_)
IsF64Integer(digits) ==
    IF ~DigitsGreater(digits, TwoTo53Digits) THEN TRUE
    ELSE IF (digits[Len(digits)] - 48) % 2 = 1 THEN FALSE
    ELSE IsF64Integer(StripZeros(Halve(digits, 0)))

\* `int_as_f64 as i64 != int_part` is false: the integer is an f64, or it is
\* i64::MAX, which rounds to 2^63 and is cast back saturating to i64::MAX
RoundTrips(int_part) ==
    \/ IsF64Integer(int_part.digits)
    \/ (~int_part.negative /\ int_part.digits = I64MaxDigits)

\* int_part as f64
IntAsF64(int_part) ==
    IF ~int_part.negative /\ int_part.digits = I64MaxDigits
    THEN I64MinMagnitudeDigits
    ELSE int_part.digits

RECURSIVE StripTrailingZeros(_)
StripTrailingZeros(digits) ==
    IF Len(digits) > 0 /\ digits[Len(digits)] = 48
    THEN StripTrailingZeros(SubSeq(digits, 1, Len(digits) - 1))
    ELSE digits

\* a decimal number: its sign, the digits of its integer part and the digits
\* after the point, without trailing zeros; zero has no sign
DecimalNumber(negative, int, fraction) ==
    [negative |-> negative /\ (StripZeros(int) # <<48>> \/ StripTrailingZeros(fraction) # <<>>),
     int |-> StripZeros(int),
     fraction |-> StripTrailingZeros(fraction)]

\* f64.rs lines 39-56: fractional = frac_part / 10^frac_digits, where
\* frac_digits is the length of frac_part written in decimal, so the digits
\* after the point are the digits of frac_part; it is added to int_as_f64
\* when int_part >= 0 and subtracted when int_part < 0.  The sum is kept
\* exact here: the f64 is the double nearest to it.
IntDotUintParser_sum(int_part, frac_part) ==
    DecimalNumber(int_part.negative, IntAsF64(int_part), frac_part)

\* f64.rs lines 25-67, with int_part and frac_part the outputs of the
\* sequence and c the cursor it returned; the sum of an i64 and a fraction
\* is finite
IntDotUintParser_value(int_part, frac_part, c) ==
    IF Len(frac_part) > MAX_FRACTIONAL_DIGITS
    THEN Err(create_error(c, "too many fractional digits"), <<>>)
    ELSE IF ~RoundTrips(int_part)
    THEN Err(create_error(c, "integer part too large for f64 precision"), <<>>)
    ELSE Ok(IntDotUintParser_sum(int_part, frac_part), c, <<>>)

\* i64().and(is_byte(b'.')).and(u64()).parse(cursor)?: the u64 after the dot
IntDotUintParser_frac(int_part, r3) ==
    IF IsErr(r3) THEN Err(SecondParser(r3.err), <<>>)
    ELSE IF ~IsOk(r3) THEN r3
    ELSE IntDotUintParser_value(int_part, r3.out, r3.cursor)

\* the dot after the i64
IntDotUintParser_dot(int_part, r2) ==
    IF IsErr(r2) THEN Err(FirstParser(SecondParser(r2.err)), <<>>)
    ELSE IF ~IsOk(r2) THEN r2
    ELSE IntDotUintParser_frac(int_part, parse(UIntParser_wide, r2.cursor))

IntDotUintParser_after_int(r1) ==
    IntDotUintParser_dot(r1.out, parse(IsByteParser(46), r1.cursor))

\* the i64
IntDotUintParser_int(r1) ==
    IF r1.tag = "Overflow" THEN Overflow(IntDotUintParser_after_int(r1.wrapped))
    ELSE IF IsErr(r1) THEN Err(FirstParser(FirstParser(r1.err)), <<>>)
    ELSE IF ~IsOk(r1) THEN r1
    ELSE IntDotUintParser_after_int(r1)

\* ascii/number/f64.rs IntDotUintParser::parse
IntDotUintParser_parse(c) == IntDotUintParser_int(parse(IntParser, c))

parse(p, c) ==
    LET r == CASE p.kind = "ByteParser" -> ByteParser_parse(c)
               [] p.kind = "IsByteParser" -> IsByteParser_parse(p, c)
               [] p.kind = "BetweenBytesParser" -> BetweenBytesParser_parse(p, c)
               [] p.kind = "CharParser" -> CharParser_parse(c)
               [] p.kind = "IsStringParser" -> IsStringParser_parse(p, c)
               [] p.kind = "DefaultParser" -> DefaultParser_parse(p, c)
               [] p.kind = "UIntParser" -> UIntParser_parse(c)
               [] p.kind = "IntParser" -> IntParser_parse(c)
               [] p.kind = "UIntParser_wide" -> UIntParser_digits(c)
               [] p.kind = "IntDotUintParser" -> IntDotUintParser_parse(c)
               [] p.kind = "Map" -> Map_parse(p, c)
               [] p.kind = "And" -> And_parse(p, c)
               [] p.kind = "Or" -> Or_parse(p, c)
               [] p.kind = "Not" -> Not_parse(p, c)
               [] p.kind = "Many" -> Many_parse(p, c)
               [] p.kind = "Some" -> Some_parse(p, c)
               [] p.kind = "All" -> All_parse(p, c)
               [] p.kind = "SeparatedList" -> SeparatedList_parse(p, c)
               [] p.kind = "WhitespaceSeparatedList" ->
                      WhitespaceSeparatedList_parse(p, c)
               [] p.kind = "Position" -> Position_parse(p, c)
               [] p.kind = "FilterParser" -> FilterParser_parse(p, c)
               [] p.kind = "TakeUntilParser" -> TakeUntilParser_parse(p, c)
               [] p.kind = "Between" -> Between_parse(p, c)
               [] p.kind = "WhitespaceBetween" -> WhitespaceBetween_parse(p, c)
               [] p.kind = "Lazy" -> Lazy_parse(p, c)
               [] p.kind = "ThenOptionally" -> ThenOptionally_parse(p, c)
    IN  [r EXCEPT !.calls = <<[parser |-> p, cursor |-> c]>> \o @]

-----------------------------------------------------------------------------
(* The grammars and the sources of the runs *)

\* the bytes 'a', 'b', 'c'
Alphabet == {97, 98, 99}
Sources == SeqsUpTo(Alphabet, MaxLen)

byte_a == IsByteParser(97)
byte_b == IsByteParser(98)
byte_c == IsByteParser(99)
\* fails on "ab.." only after reading one byte, on "abc" never
a_then_b == And(byte_a, byte_b)
\* fails after reading two bytes on "aba", "abb" and "ab"
fail_after_2 == And(a_then_b, byte_c)

\* alternatives of one output type (a byte), as Or requires
ByteParsers ==
    {ByteParser, byte_a, byte_b,
     Map(a_then_b, "first"), Map(fail_after_2, "first_first")}

OrParsers ==
    {Or(p1, p2) : p1 \in ByteParsers \ {ByteParser}, p2 \in {ByteParser, byte_a, byte_b}}

NestedOrParsers ==
    {Or(Or(Map(fail_after_2, "first_first"), Map(a_then_b, "first")), byte_b),
     Or(byte_b, Or(Map(a_then_b, "first"), Map(fail_after_2, "first_first"))),
     Or(Or(byte_c, Or(Map(a_then_b, "first"), byte_b)), Map(fail_after_2, "first_first"))}

\* children of the lookahead and of the repetitions: consuming ones, ones
\* that fail after reading, and ones that succeed without advancing
Children ==
    {ByteParser, byte_a, IsStringParser(<<97, 98>>), a_then_b, fail_after_2,
     Or(Map(a_then_b, "first"), byte_b),
     DefaultParser(0), Not(byte_b), Many(byte_a)}

NotParsers == {Not(p) : p \in Children}
ManyParsers == {Many(p) : p \in Children}
SomeParsers == {Some(p) : p \in Children}
AllParsers == {All(p) : p \in Children}

\* the parsers called in the combinator runs
BasicParsers ==
    ByteParsers \cup Children \cup OrParsers \cup NestedOrParsers \cup NotParsers

\* Position over every child, and inside a sequence
PositionParsers ==
    {Position(p) : p \in Children \cup {byte_b, Many(ByteParser)}}
    \cup {Position(And(Position(byte_a), Position(ByteParser)))}

\* filters over children that read one element, two elements or none
FilterParsers ==
    {FilterParser(p, predicate, "expected another byte") :
         p \in {ByteParser, CharParser, byte_a, Map(a_then_b, "first"),
                Map(fail_after_2, "first_first"), DefaultParser(98)},
         predicate \in {"is_a", "is_b", "never"}}

\* sequences of a first parser that reads none, one, two or many elements
\* and a second parser
AndParsers ==
    {And(p1, p2) :
         p1 \in {ByteParser, byte_a, a_then_b, IsStringParser(<<97, 98>>),
                 Many(byte_a), Not(byte_b)},
         p2 \in {ByteParser, byte_b, byte_c, a_then_b}}

\* scans over children that read one element or two, that fail on some
\* elements, or that read nothing
TakeUntilParsers ==
    {TakeUntilParser(p, predicate) :
         p \in {ByteParser, CharParser, Or(byte_a, byte_b), Map(a_then_b, "first"),
                DefaultParser(98)},
         predicate \in {"is_b", "is_c", "never"}}

\* the factories handed to lazy(): of a leaf, of a repetition, of a sequence
\* and of a grammar that refers to itself
Factories == {"is_byte_a", "many_a", "a_then_b", "nested"}

\* maps over children that read one, two or many elements, and a map of a map
MapParsers ==
    {Map(a_then_b, "first"), Map(a_then_b, "second"), Map(Many(byte_a), "len"),
     Map(byte_a, "pair"), Map(fail_after_2, "first_first"),
     Map(Map(a_then_b, "second"), "pair")}

\* a required parser that reads one element, two, or any number, and an
\* optional parser that fails at once or after reading one or two elements
ThenOptionallyParsers ==
    {ThenOptionally(p1, p2) :
         p1 \in {byte_a, a_then_b, Many(byte_a)},
         p2 \in {byte_b, a_then_b, fail_after_2, Many(byte_c)}}

\* the parsers called in the repetition runs
Repetitions == ManyParsers \cup SomeParsers \cup AllParsers

-----------------------------------------------------------------------------
(* The runs: a caller builds a cursor over src, moves it with next() and   *)
(* try_next() (going on from the cursor a call returned), and then hands  *)
(* it to some parser's parse(); the run ends with what parse() returned.  *)

NoParser == [kind |-> "none"]
NoResult == [tag |-> "none", calls |-> <<>>]
NoError == [kind |-> "none"]

InitOver(sources) ==
    /\ src \in sources
    /\ cursor = AtomicCursor_new(src)
    /\ parser = NoParser
    /\ arg = AtomicCursor_new(src)
    /\ result = NoResult
    /\ etree = NoError

Init == InitOver(Sources)

\* the caller still holds a cursor it has not parsed from
Moving == parser.kind \in {"none", "next", "try_next"}

CallNext ==
    /\ Moving
    /\ parser' = [kind |-> "next"]
    /\ arg' = cursor
    /\ result' = Ok(<<>>, next(cursor), <<>>)
    /\ cursor' = next(cursor)
    /\ UNCHANGED <<src, etree>>

CallTryNext ==
    /\ Moving
    /\ parser' = [kind |-> "try_next"]
    /\ arg' = cursor
    /\ result' = try_next(cursor)
    /\ cursor' = IF IsOk(try_next(cursor)) THEN try_next(cursor).cursor ELSE cursor
    /\ UNCHANGED <<src, etree>>

CallParse(p) ==
    /\ Moving
    /\ parser' = p
    /\ arg' = cursor
    /\ LET r == parse(p, cursor)
       IN  /\ result' = r
           /\ cursor' = IF IsOk(r) THEN r.cursor ELSE cursor
    /\ UNCHANGED <<src, etree>>

CallBasicParser == \E p \in BasicParsers : CallParse(p)

Next == CallNext \/ CallTryNext \/ CallBasicParser

Spec == Init /\ [][Next]_vars

\* the repetition runs: Many, Some and All over every child
CallRepetition == \E p \in Repetitions : CallParse(p)

NextRepeat == CallNext \/ CallRepetition

SpecRepeat == Init /\ [][NextRepeat]_vars

\* the wrapper runs: the combinators that wrap one parser or run a few in
\* sequence
CallPosition == \E p \in PositionParsers : CallParse(p)

CallFilter == \E p \in FilterParsers : CallParse(p)

CallAnd == \E p \in AndParsers : CallParse(p)

CallTakeUntil == \E p \in TakeUntilParsers : CallParse(p)

\* lazy(factory): the parser is built, the cursor stays where it is
CallLazyNew ==
    /\ Moving
    /\ \E factory \in Factories :
           /\ parser' = [kind |-> "Lazy_new", factory |-> factory]
           /\ result' = Lazy_new(factory)
    /\ arg' = cursor
    /\ UNCHANGED <<src, cursor, etree>>

\* parse() of the parser that lazy() returned
CallLazy ==
    /\ parser.kind = "Lazy_new"
    /\ parser' = result.out
    /\ arg' = cursor
    /\ result' = parse(result.out, cursor)
    /\ cursor' = IF IsOk(parse(result.out, cursor))
                 THEN parse(result.out, cursor).cursor
                 ELSE cursor
    /\ UNCHANGED <<src, etree>>

CallMap == \E p \in MapParsers : CallParse(p)

CallThenOptionally == \E p \in ThenOptionallyParsers : CallParse(p)

NextWrap ==
    \/ CallNext
    \/ CallMap
    \/ CallPosition
    \/ CallFilter
    \/ CallAnd
    \/ CallTakeUntil
    \/ CallLazyNew
    \/ CallLazy
    \/ CallThenOptionally

SpecWrap == Init /\ [][NextWrap]_vars

-----------------------------------------------------------------------------
(* The UTF-8 runs: CharParser on every sequence of a lead byte and up to   *)
(* three more bytes, over bytes at the edges of the ranges the branches of *)
(* CharParser tell apart, and on the encodings of scalar values at the     *)
(* edges of the one- to four-byte ranges followed by further bytes.        *)

\* a UTF-8 sequence has at most three bytes after its lead byte
MaxContinuations == 3

\* 00 41 7F | 80 BF | C0 C1 C2 DF | E0 E1 ED EE EF | F0 F1 F4 F5 F7 | F8 FF
LeadBytes ==
    {0, 65, 127, 128, 191, 192, 193, 194, 223, 224, 225, 237, 238, 239,
     240, 241, 244, 245, 247, 248, 255}

\* 41 | 80 8F 90 9F A0 BF | C2
TailBytes == {65, 128, 143, 144, 159, 160, 191, 194}

\* 'A', a continuation byte, a four-byte lead byte
FollowBytes == {65, 128, 240}

\* U+0000 U+0041 U+007F | U+0080 U+00F1 U+07FF | U+0800 U+20AC U+D7FF U+E000
\* U+FFFF | U+10000 U+1D7D8 U+1F980 U+10FFFF
ScalarSamples ==
    {0, 65, 127, 128, 241, 2047, 2048, 8364, 55295, 57344, 65535,
     65536, 120792, 129408, 1114111}

\* the bytes of a char in a &str / b"..." test input: the shortest UTF-8 form
Encode(cp) ==
    IF cp < 128 THEN <<cp>>
    ELSE IF cp < 2048 THEN <<192 + (cp \div 64), 128 + (cp % 64)>>
    ELSE IF cp < 65536
    THEN <<224 + (cp \div 4096), 128 + ((cp \div 64) % 64), 128 + (cp % 64)>>
    ELSE <<240 + (cp \div 262144), 128 + ((cp \div 4096) % 64),
           128 + ((cp \div 64) % 64), 128 + (cp % 64)>>

Utf8Sources ==
    {<<b>> \o t : b \in LeadBytes, t \in SeqsUpTo(TailBytes, MaxContinuations)}
    \cup {Encode(cp) \o f : cp \in ScalarSamples, f \in SeqsUpTo(FollowBytes, MaxTail)}

InitUtf8 == InitOver(Utf8Sources)

CallChar == CallParse(CharParser)

NextUtf8 == CallNext \/ CallChar

SpecUtf8 == InitUtf8 /\ [][NextUtf8]_vars

-----------------------------------------------------------------------------
(* The separated-list runs: lists of numbers and of digits over the bytes  *)
(* '1', '2', ',', 'x' and ' '.                                             *)

ListAlphabet == {49, 50, 44, 120, 32}
ListSources == SeqsUpTo(ListAlphabet, MaxListLen)

comma == IsByteParser(44)
digit == BetweenBytesParser(48, 57)

ListParsers ==
    {SeparatedList(UIntParser, comma),
     SeparatedList(digit, comma),
     SeparatedList(UIntParser, IsStringParser(<<44, 44>>))}

InitList == InitOver(ListSources)

CallList == \E p \in ListParsers : CallParse(p)

\* the whitespace-aware lists of the same items and separators
WhitespaceListParsers ==
    {WhitespaceSeparatedList(p.parser, p.separator) : p \in ListParsers}

CallWhitespaceList == \E p \in WhitespaceListParsers : CallParse(p)

NextList == CallNext \/ CallList \/ CallWhitespaceList

SpecList == InitList /\ [][NextList]_vars

------------------------------------------------------------------------------
(* The number runs: the signed-integer parser on digit runs at the edges   *)
(* of the i64 and u64 ranges, with and without a sign, and on small        *)
(* numbers.                                                                *)

\* "", "0", "7", "42", "007", i64::MAX, i64::MAX + 1, i64::MAX + 2 (the
\* second also with a leading zero), u64::MAX and u64::MAX + 1
DigitRuns ==
    {<<>>, <<48>>, <<55>>, <<52, 50>>, <<48, 48, 55>>,
     I64MaxDigits, I64MinMagnitudeDigits, <<48>> \o I64MinMagnitudeDigits,
     SubSeq(I64MaxDigits, 1, 18) \o <<57>>,
     U64MaxDigits, SubSeq(U64MaxDigits, 1, 19) \o <<54>>}

\* no sign, '-', '+', and two signs
Signs == {<<>>, <<45>>, <<43>>, <<45, 45>>}

IntSources ==
    {sign \o digits \o tail :
         sign \in Signs, digits \in DigitRuns, tail \in {<<>>, <<120>>, <<46, 53>>}}

InitInt == InitOver(IntSources)

\* i64().parse(cursor), in a build with overflow checks or in one without
CallInt ==
    /\ Moving
    /\ parser' = IntParser
    /\ arg' = cursor
    /\ \E r \in Builds(parse(IntParser, cursor)) :
           /\ result' = r
           /\ cursor' = IF IsOk(r) THEN r.cursor ELSE cursor
    /\ UNCHANGED <<src, etree>>

NextInt == CallNext \/ CallInt

SpecInt == InitInt /\ [][NextInt]_vars

\* the float runs: an optional sign, an integer part, a dot and a fraction

\* "0", "1", "42", "007", 2^53, 2^53 + 1, i64::MAX
IntRuns ==
    {<<48>>, <<49>>, <<52, 50>>, <<48, 48, 55>>, TwoTo53Digits,
     SubSeq(TwoTo53Digits, 1, 15) \o <<51>>, I64MaxDigits}

\* "", "0", "5", "05", "50", "456", fifteen digits, fifteen zeros and a 1,
\* sixteen digits, twenty digits
FracRuns ==
    {<<>>, <<48>>, <<53>>, <<48, 53>>, <<53, 48>>, <<52, 53, 54>>,
     <<49, 50, 51, 52, 53, 54, 55, 56, 57, 48, 49, 50, 51, 52, 53>>,
     <<48, 48, 48, 48, 48, 48, 48, 48, 48, 48, 48, 48, 48, 48, 48, 49>>,
     <<49, 50, 51, 52, 53, 54, 55, 56, 57, 48, 49, 50, 51, 52, 53, 54>>,
     <<49, 50, 51, 52, 53, 54, 55, 56, 57, 48, 49, 50, 51, 52, 53, 54, 55, 56, 57, 48>>}

FloatSources ==
    {sign \o int \o <<46>> \o frac \o tail :
         sign \in {<<>>, <<45>>, <<43>>}, int \in IntRuns, frac \in FracRuns,
         tail \in {<<>>, <<120>>}}
    \cup {<<46, 53>>, <<52, 50>>, <<45, 46, 53>>}

InitFloat == InitOver(FloatSources)

CallFloat ==
    /\ Moving
    /\ parser' = IntDotUintParser
    /\ arg' = cursor
    /\ \E r \in Builds(parse(IntDotUintParser, cursor)) :
           /\ result' = r
           /\ cursor' = IF IsOk(r) THEN r.cursor ELSE cursor
    /\ UNCHANGED <<src, etree>>

NextFloat == CallNext \/ CallFloat

SpecFloat == InitFloat /\ [][NextFloat]_vars

------------------------------------------------------------------------------
(* The error-rendering runs: a cursor is moved over a text of letters and  *)
(* newlines, and the location of the cursor is rendered the way an error   *)
(* at that cursor is displayed.                                            *)

TextSources == SeqsUpTo({97, NEWLINE}, MaxText)

InitText == InitOver(TextSources)

\* the location of an error raised at the cursor
CursorLoc == CodeLoc_new(inner(cursor)[1], inner(cursor)[2])

CallReadablePosition ==
    /\ Moving
    /\ parser' = [kind |-> "readable_position"]
    /\ arg' = cursor
    /\ result' = Ok(readable_position(CursorLoc), cursor, <<>>)
    /\ UNCHANGED <<src, cursor, etree>>

CallContextLines ==
    /\ Moving
    /\ parser' = [kind |-> "context_lines"]
    /\ arg' = cursor
    /\ result' = Ok(context_lines(CursorLoc), cursor, <<>>)
    /\ UNCHANGED <<src, cursor, etree>>

NextText == CallNext \/ CallReadablePosition \/ CallContextLines

SpecText == InitText /\ [][NextText]_vars

------------------------------------------------------------------------------
(* The delimiter runs: a number or a digit between '[' and ']', with and   *)
(* without whitespace around it, parsed by Between and by its              *)
(* whitespace-aware variant.                                               *)

\* '[', ' ', '4', '2', ']'
BetweenAlphabet == {91, 32, 52, 50, 93}

\* runs of spaces, a tab, and U+00A0 in its two bytes
WhitespaceRuns == SeqsUpTo({32}, MaxTail) \cup {<<9>>, <<194, 160>>}

\* "", "4", "42", "x" and the like
BetweenContents == SeqsUpTo({52, 50}, MaxTail) \cup {<<120>>, <<52, 120>>}

Padded(w1, content, w2) == <<91>> \o w1 \o content \o w2 \o <<93>>

BetweenSources ==
    SeqsUpTo(BetweenAlphabet, MaxLen)
    \cup {Padded(w1, d, w2) : w1 \in WhitespaceRuns, d \in BetweenContents,
                               w2 \in WhitespaceRuns}
    \cup {Padded(w1, d, <<>>) \o <<32>> : w1 \in WhitespaceRuns, d \in BetweenContents}

left_bracket == IsByteParser(91)
right_bracket == IsByteParser(93)

BetweenParsers ==
    {Between(left_bracket, content, right_bracket) :
         content \in {UIntParser, digit, Many(digit)}}

WhitespaceBetweenParsers ==
    {WhitespaceBetween(left_bracket, content, right_bracket) :
         content \in {UIntParser, digit, Many(digit)}}

InitBetween == InitOver(BetweenSources)

CallBetween == \E p \in BetweenParsers : CallParse(p)

CallWhitespaceBetween == \E p \in WhitespaceBetweenParsers : CallParse(p)

NextBetween == CallNext \/ CallBetween \/ CallWhitespaceBetween

SpecBetween == InitBetween /\ [][NextBetween]_vars

-----------------------------------------------------------------------------
(* The composition runs: every grammar of the other runs, on the sources   *)
(* over 'a', 'b', 'c' and on a few sources with brackets, whitespace,      *)
(* digits, commas and a two-byte character.                                *)

\* "[a]", "[ a]", "1,2", "1 ,2", "1, x", "é", "a é"
ComposedSamples ==
    {<<91, 97, 93>>, <<91, 32, 97, 93>>, <<49, 44, 50>>, <<49, 32, 44, 50>>,
     <<49, 44, 32, 120>>, <<195, 169>>, <<97, 32, 195, 169>>}

ComposedSources == Sources \cup ComposedSamples

ComposedParsers ==
    BasicParsers \cup Repetitions \cup PositionParsers \cup FilterParsers
    \cup AndParsers \cup TakeUntilParsers \cup MapParsers \cup ThenOptionallyParsers
    \cup ListParsers \cup WhitespaceListParsers \cup BetweenParsers
    \cup WhitespaceBetweenParsers \cup {Lazy(factory) : factory \in Factories}
    \cup {CharParser, UIntParser, unicode_whitespace}

InitCompose == InitOver(ComposedSources)

CallComposed == \E p \in ComposedParsers : CallParse(p)

NextCompose == CallNext \/ CallComposed

SpecCompose == InitCompose /\ [][NextCompose]_vars

-----------------------------------------------------------------------------
(* The error-model runs: an error value is built the way failing parsers   *)
(* build it, a leaf error first and one wrapping node at a time: And wraps *)
(* the error of its failed child, Or wraps the errors of both alternatives, *)
(* ParsicombError::wrap boxes a node into a leaf.                          *)

ErrSource == <<97, 98, 99, 97, 98>>

LeafErrors ==
    {SyntaxError("error at pos", CodeLoc_new(ErrSource, 0)),
     SyntaxError("error at pos", CodeLoc_new(ErrSource, 2)),
     SyntaxError("error at pos", CodeLoc_new(ErrSource, 5)),
     CannotReadValueAtEof(CodeLoc_new(ErrSource, 5))}

\* the errors of the other alternative of an Or
SiblingErrors == LeafErrors \cup {SecondParser(e) : e \in LeafErrors}

RECURSIVE Depth(_)
Depth(e) ==
    CASE e.kind = "BothFailed" -> 1 + Max(Depth(e.first), Depth(e.second))
      [] e.kind \in {"FirstParser", "SecondParser", "WrappedError"} -> 1 + Depth(e.inner)
      [] OTHER -> 0

InitErr ==
    /\ src = ErrSource
    /\ cursor = AtomicCursor_new(ErrSource)
    /\ parser = NoParser
    /\ arg = AtomicCursor_new(ErrSource)
    /\ result = NoResult
    /\ etree = NoError

Growing == etree # NoError /\ Depth(etree) < MaxDepth

LeafFails ==
    /\ etree = NoError
    /\ etree' \in LeafErrors
    /\ UNCHANGED <<src, cursor, parser, arg, result>>

AndFirstFails ==
    /\ Growing
    /\ etree' = FirstParser(etree)
    /\ UNCHANGED <<src, cursor, parser, arg, result>>

AndSecondFails ==
    /\ Growing
    /\ etree' = SecondParser(etree)
    /\ UNCHANGED <<src, cursor, parser, arg, result>>

OrBothFail ==
    /\ Growing
    /\ \E e \in SiblingErrors \cup {etree} :
           etree' \in {BothFailed(etree, e), BothFailed(e, etree)}
    /\ UNCHANGED <<src, cursor, parser, arg, result>>

WrapError ==
    /\ Growing
    /\ etree.kind \notin LeafKinds
    /\ etree' = WrappedError(etree)
    /\ UNCHANGED <<src, cursor, parser, arg, result>>

NextErr == LeafFails \/ AndFirstFails \/ AndSecondFails \/ OrBothFail \/ WrapError

SpecErr == InitErr /\ [][NextErr]_vars

-----------------------------------------------------------------------------
(* Claims *)

\* what a call returned, without the record of the calls it made
Outcome(r) ==
    IF IsOk(r) THEN [tag |-> "Ok", out |-> r.out, cursor |-> r.cursor]
    ELSE IF IsErr(r) THEN [tag |-> "Err", err |-> r.err]
    ELSE [tag |-> r.tag]

\* the last call was Or(p1, p2).parse(arg) and p1 failed on arg
OrFirstFailed == parser.kind = "Or" /\ IsErr(parse(parser.parser1, arg))

\* the invocation of p2 that Or made: the one after p1's invocations
OrSecondCall == result.calls[Len(parse(parser.parser1, arg).calls) + 2]

OrSecondRunOnArg ==
    /\ Len(result.calls) >= Len(parse(parser.parser1, arg).calls) + 2
    /\ OrSecondCall.parser = parser.parser2
    /\ source(OrSecondCall.cursor) = source(arg)
    /\ position(OrSecondCall.cursor) = position(arg)

\* C1 as stated: when p1 fails on C, p2 is invoked on a cursor with C's source
\* and position, and the result of Or is exactly the result of p2 on C.
C1_OrResultIsSecondResult ==
    OrFirstFailed =>
        /\ OrSecondRunOnArg
        /\ Outcome(result) = Outcome(parse(parser.parser2, arg))

\* C1 as amended: when p1 fails on C, p2 is invoked on a cursor with C's
\* source and position; if p2 succeeds on C the result of Or is exactly p2's
\* output and cursor, and if p2 fails too it is the error BothFailed that
\* wraps p1's error on C and p2's error on C.
C1_OrRetriesOnOriginalCursor ==
    OrFirstFailed =>
        /\ OrSecondRunOnArg
        /\ IF IsOk(parse(parser.parser2, arg))
           THEN Outcome(result) = Outcome(parse(parser.parser2, arg))
           ELSE /\ IsErr(result)
                /\ result.err = BothFailed(parse(parser.parser1, arg).err,
                                           parse(parser.parser2, arg).err)

\* p1 failed two elements into the input, and Or succeeded with p2 reading
\* the first element of C
C1_Witness ==
    /\ OrFirstFailed
    /\ position(arg) + 2 <= CodeLoc_position(loc(likely_error(parse(parser.parser1, arg).err)))
    /\ IsOk(result)
    /\ result.out = src[position(arg) + 1]
    /\ position(result.cursor) = position(arg) + 1

\* the leaves of an error tree: the ParsicombError values under its Or and
\* And nodes (a WrappedError is a leaf, located where its content resolves)
RECURSIVE Leaves(_)
Leaves(e) ==
    CASE e.kind = "BothFailed" -> Leaves(e.first) \cup Leaves(e.second)
      [] e.kind \in {"FirstParser", "SecondParser"} -> Leaves(e.inner)
      [] OTHER -> {e}

LeafPositions(e) == {CodeLoc_position(loc(l)) : l \in Leaves(e)}

RECURSIVE OrDepth(_)
OrDepth(e) ==
    CASE e.kind = "BothFailed" -> 1 + Max(OrDepth(e.first), OrDepth(e.second))
      [] e.kind \in {"FirstParser", "SecondParser"} -> 1 + OrDepth(e.inner)
      [] OTHER -> 0

\* C2: for every error tree of Or and And nodes over leaf errors, at any
\* nesting depth, likely_error() is a leaf of the tree and its position is
\* the maximum of the positions of all leaves of the tree.
C2_LikelyErrorIsFurthestLeaf ==
    etree # NoError =>
        /\ likely_error(etree) \in Leaves(etree)
        /\ \A q \in LeafPositions(etree) :
               q <= CodeLoc_position(loc(likely_error(etree)))

\* three levels of Or and And nodes whose leaves fail at 2 and at 5, the
\* leaf at 5 under the second alternative, resolved to position 5
C2_Witness ==
    /\ etree # NoError
    /\ etree.kind = "BothFailed"
    /\ OrDepth(etree) >= 3
    /\ {2, 5} \subseteq LeafPositions(etree)
    /\ LeafPositions(etree.first) = {2}
    /\ CodeLoc_position(loc(likely_error(etree))) = 5

\* C3: after any sequence of next() and try_next() calls from
\* AtomicCursor::new(data) the cursor is Valid with position < len(data) or
\* EndOfFile, and reading it never indexes out of bounds; position() is
\* len(data) exactly at EndOfFile and eos() is true exactly at EndOfFile;
\* new of an empty slice is EndOfFile; next() from the last element is
\* EndOfFile and next() on EndOfFile is EndOfFile.
C3_CursorStaysInBounds ==
    Moving =>
        /\ cursor.kind \in {"Valid", "EndOfFile"}
        /\ source(cursor) = src
        /\ cursor.kind = "Valid" => cursor.position >= 0 /\ cursor.position < Len(src)
        /\ value(cursor).tag \in {"Ok", "Err"}
        /\ (position(cursor) = Len(src)) <=> (cursor.kind = "EndOfFile")
        /\ eos(cursor) <=> (cursor.kind = "EndOfFile")
        /\ Len(src) = 0 => AtomicCursor_new(src) = EndOfFile(src)
        /\ (parser.kind = "next" /\ position(arg) + 1 >= Len(src)) =>
               cursor = EndOfFile(src)
        /\ (parser.kind = "next" /\ arg.kind = "EndOfFile") => cursor = arg

\* next() was called on the last element of a source of three or more
\* elements, reached by next() and try_next(), and gave EndOfFile
C3_Witness ==
    /\ parser.kind = "next"
    /\ Len(src) >= 3
    /\ arg.kind = "Valid"
    /\ position(arg) = Len(src) - 1
    /\ cursor.kind = "EndOfFile"
    /\ position(cursor) = Len(src)
    /\ eos(cursor)

\* the last call was Some(P).parse(arg) or Many(P).parse(arg)
SomeOrMany == parser.kind \in {"Some", "Many"}

SomeOnArg == parse(Some(parser.parser), arg)
ManyOnArg == parse(Many(parser.parser), arg)

\* C4: Some(P).parse(C) is Err if and only if Many(P).parse(C) returns an
\* empty collection with a cursor at C's position, and whenever
\* Some(P).parse(C) is Ok it returns the outputs and the cursor of
\* Many(P).parse(C).
C4_SomeAgreesWithMany ==
    SomeOrMany =>
        /\ Outcome(result) = Outcome(IF parser.kind = "Some" THEN SomeOnArg ELSE ManyOnArg)
        /\ IsErr(SomeOnArg) <=>
               /\ IsOk(ManyOnArg)
               /\ ManyOnArg.out = <<>>
               /\ position(ManyOnArg.cursor) = position(arg)
        /\ IsOk(SomeOnArg) =>
               /\ IsOk(ManyOnArg)
               /\ ManyOnArg.out = SomeOnArg.out
               /\ ManyOnArg.cursor = SomeOnArg.cursor

\* Some(P) matched twice or more and stopped before the end of the source
C4_Witness ==
    /\ parser.kind = "Some"
    /\ IsOk(result)
    /\ Len(result.out) >= 2
    /\ ~eos(result.cursor)
    /\ position(result.cursor) > position(arg)

\* the cursor after k successive successful applications of p from c
RECURSIVE CursorAfter(_, _, _)
CursorAfter(p, c, k) ==
    IF k = 0 THEN c ELSE parse(p, CursorAfter(p, c, k - 1)).cursor

\* C5: Many(p).parse(C) never returns Err; what it returns is the outputs of
\* the successive successful applications of p in order, with exactly the
\* cursor that was handed to the first failing application of p (with zero
\* matches, C).
C5_ManySwallowsTheFailure ==
    parser.kind = "Many" =>
        /\ ~IsErr(result)
        /\ IsOk(result) =>
               /\ \A k \in 1..Len(result.out) :
                      /\ IsOk(parse(parser.parser, CursorAfter(parser.parser, arg, k - 1)))
                      /\ result.out[k] =
                             parse(parser.parser, CursorAfter(parser.parser, arg, k - 1)).out
               /\ IsErr(parse(parser.parser,
                              CursorAfter(parser.parser, arg, Len(result.out))))
               /\ result.cursor = CursorAfter(parser.parser, arg, Len(result.out))
               /\ Len(result.out) = 0 => result.cursor = arg

\* Many(p) matched once and its child then failed after reading an element:
\* the cursor returned is the one before that attempt
C5_Witness ==
    /\ parser.kind = "Many"
    /\ IsOk(result)
    /\ Len(result.out) >= 1
    /\ IsErr(parse(parser.parser, result.cursor))
    /\ CodeLoc_position(loc(likely_error(parse(parser.parser, result.cursor).err)))
           > position(result.cursor)
    /\ ~eos(result.cursor)

\* the applications of the child that the last call made itself
Applications ==
    Cardinality({i \in DOMAIN result.calls : result.calls[i].parser = parser.parser})

\* C6 as stated: for every child p, also one that can succeed without
\* advancing the cursor, Many(p), Some(p) and All(p) return, after a number
\* of applications of p bounded by the length of the input.
C6_RepetitionsTerminate ==
    parser.kind \in {"Many", "Some", "All"} =>
        /\ result.tag \in {"Ok", "Err"}
        /\ Applications <= Len(src) + 1

\* C7: Not(p).parse(C) never consumes input: if p fails on C it returns Ok
\* with the unit output and a cursor at C's position; if p succeeds on C it
\* returns an error located at C's position.
C7_NotNeverConsumes ==
    parser.kind = "Not" =>
        /\ IsErr(parse(parser.parser, arg)) =>
               /\ IsOk(result)
               /\ result.out = <<>>
               /\ source(result.cursor) = source(arg)
               /\ position(result.cursor) = position(arg)
        /\ IsOk(parse(parser.parser, arg)) =>
               /\ IsErr(result)
               /\ result.err.kind = "SyntaxError"
               /\ CodeLoc_position(loc(result.err)) = position(arg)
        /\ position(cursor) = position(arg)

\* Not(p) was called away from the start of the source, p matched two or
\* more elements, and the error is located where Not was called
C7_Witness ==
    /\ parser.kind = "Not"
    /\ position(arg) >= 1
    /\ IsOk(parse(parser.parser, arg))
    /\ position(parse(parser.parser, arg).cursor) >= position(arg) + 2
    /\ IsErr(result)
    /\ CodeLoc_position(loc(result.err)) = position(arg)

\* the byte of s at index k (from 1), -1 past the end
ByteAt(s, k) == IF k >= 1 /\ k <= Len(s) THEN s[k] ELSE -1

StartsWith(s, at, bytes) ==
    /\ at + Len(bytes) <= Len(s)
    /\ SubSeq(s, at + 1, at + Len(bytes)) = bytes

IsScalar(cp) == cp \in 0..1114111 /\ cp \notin 55296..57343

\* The well-formed UTF-8 byte sequences of the Unicode Standard (table 3-7):
\* the length of the one that starts with b1 b2 b3 b4, 0 if none does.
WellFormedLen4(b1, b2, b3, b4) ==
    IF b1 \in 0..127 THEN 1
    ELSE IF b1 \in 194..223 /\ b2 \in 128..191 THEN 2
    ELSE IF /\ \/ b1 = 224 /\ b2 \in 160..191
               \/ b1 \in 225..236 /\ b2 \in 128..191
               \/ b1 = 237 /\ b2 \in 128..159
               \/ b1 \in 238..239 /\ b2 \in 128..191
            /\ b3 \in 128..191
    THEN 3
    ELSE IF /\ \/ b1 = 240 /\ b2 \in 144..191
               \/ b1 \in 241..243 /\ b2 \in 128..191
               \/ b1 = 244 /\ b2 \in 128..143
            /\ b3 \in 128..191
            /\ b4 \in 128..191
    THEN 4
    ELSE 0

WellFormedLen(s, at) ==
    WellFormedLen4(ByteAt(s, at + 1), ByteAt(s, at + 2), ByteAt(s, at + 3), ByteAt(s, at + 4))

\* the last call was CharParser.parse(arg) with arg on a byte
CharOnByte == parser.kind = "CharParser" /\ ~eos(arg)

\* C8: for a scalar value encoded in its shortest UTF-8 form of n bytes at
\* cursor C, whatever bytes follow, CharParser returns exactly that scalar
\* value and a cursor at position C.position() + n, which is EndOfFile when
\* that is the length of the input.
C8_CharDecodesShortestForm ==
    CharOnByte =>
        /\ \A cp \in ScalarSamples :
               StartsWith(src, position(arg), Encode(cp)) =>
                   /\ IsOk(result)
                   /\ result.out = cp
                   /\ source(result.cursor) = src
                   /\ position(result.cursor) = position(arg) + Len(Encode(cp))
                   /\ (position(arg) + Len(Encode(cp)) = Len(src))
                          <=> (result.cursor.kind = "EndOfFile")
        /\ WellFormedLen(src, position(arg)) > 0 =>
               /\ IsOk(result)
               /\ IsScalar(result.out)
               /\ StartsWith(src, position(arg), Encode(result.out))
               /\ Len(Encode(result.out)) = WellFormedLen(src, position(arg))
               /\ position(result.cursor) = position(arg) + WellFormedLen(src, position(arg))

\* U+10FFFF was decoded from its four bytes with a continuation byte
\* following them, and the cursor returned is on that byte
C8_Witness ==
    /\ CharOnByte
    /\ StartsWith(src, position(arg), Encode(1114111))
    /\ IsOk(result)
    /\ result.out = 1114111
    /\ position(result.cursor) = position(arg) + 4
    /\ IsOk(value(result.cursor))
    /\ value(result.cursor).out = 128

\* the bytes a lead byte announces: itself and its continuation bytes
SequenceLen(b1) ==
    IF b1 \in 192..223 THEN 2
    ELSE IF b1 \in 224..239 THEN 3
    ELSE IF b1 \in 240..247 THEN 4
    ELSE 1

\* the sequence at arg is all there and its continuation bytes are 10xxxxxx
CompleteSequence ==
    /\ position(arg) + SequenceLen(ByteAt(src, position(arg) + 1)) <= Len(src)
    /\ \A k \in 2..SequenceLen(ByteAt(src, position(arg) + 1)) :
           ByteAt(src, position(arg) + k) \in 128..191

\* the code point the payload bits of the sequence at arg spell
PayloadAt(s, at) ==
    IF SequenceLen(ByteAt(s, at + 1)) = 2
    THEN (ByteAt(s, at + 1) - 192) * 64 + (ByteAt(s, at + 2) - 128)
    ELSE IF SequenceLen(ByteAt(s, at + 1)) = 3
    THEN (ByteAt(s, at + 1) - 224) * 4096 + (ByteAt(s, at + 2) - 128) * 64
         + (ByteAt(s, at + 3) - 128)
    ELSE IF SequenceLen(ByteAt(s, at + 1)) = 4
    THEN (ByteAt(s, at + 1) - 240) * 262144 + (ByteAt(s, at + 2) - 128) * 4096
         + (ByteAt(s, at + 3) - 128) * 64 + (ByteAt(s, at + 4) - 128)
    ELSE ByteAt(s, at + 1)

\* the smallest code point a sequence of n bytes may spell
MinCodePoint(n) == IF n = 2 THEN 128 ELSE IF n = 3 THEN 2048 ELSE IF n = 4 THEN 65536 ELSE 0

Reason(r, message) == IsErr(r) /\ r.err.kind = "SyntaxError" /\ r.err.message = message

\* C9: CharParser never returns Ok on ill-formed input, and reports
\* 'overlong' for a complete 2/3/4-byte sequence whose code point is below
\* 0x80/0x800/0x10000, 'surrogate' for a 3-byte sequence decoding to
\* U+D800..U+DFFF, 'beyond Unicode range' for a 4-byte sequence decoding
\* above U+10FFFF, 'incomplete' when the input ends before all continuation
\* bytes, and 'invalid start byte' for the lead bytes 0x80..0xBF and
\* 0xF8..0xFF.
C9_CharRejectsIllFormed ==
    CharOnByte =>
        /\ WellFormedLen(src, position(arg)) = 0 => IsErr(result)
        /\ (CompleteSequence /\ SequenceLen(ByteAt(src, position(arg) + 1)) > 1
             /\ PayloadAt(src, position(arg))
                    < MinCodePoint(SequenceLen(ByteAt(src, position(arg) + 1))))
               => Reason(result, "overlong UTF-8 encoding")
        /\ (CompleteSequence /\ SequenceLen(ByteAt(src, position(arg) + 1)) = 3
             /\ PayloadAt(src, position(arg)) \in 55296..57343)
               => Reason(result, "UTF-16 surrogate in UTF-8")
        /\ (CompleteSequence /\ SequenceLen(ByteAt(src, position(arg) + 1)) = 4
             /\ PayloadAt(src, position(arg)) > 1114111)
               => Reason(result, "codepoint beyond Unicode range")
        /\ position(arg) + SequenceLen(ByteAt(src, position(arg) + 1)) > Len(src)
               => Reason(result, "incomplete UTF-8 sequence")
        /\ ByteAt(src, position(arg) + 1) \in (128..191) \cup (248..255)
               => Reason(result, "invalid UTF-8 start byte")

\* ED A0 80, the three bytes that spell the surrogate U+D800, were
\* rejected as a surrogate
C9_Witness ==
    /\ CharOnByte
    /\ StartsWith(src, position(arg), <<237, 160, 128>>)
    /\ Reason(result, "UTF-16 surrogate in UTF-8")

\* the applications of the separator that the last call made
SeparatorCalls ==
    {i \in DOMAIN result.calls : i > 1 /\ result.calls[i].parser = parser.separator}

\* the separator matched at c and the item failed after it
TrailingSeparatorAt(c) ==
    /\ IsOk(parse(parser.separator, c))
    /\ IsErr(parse(parser.parser, parse(parser.separator, c).cursor))

ItemErrorAfter(c) == parse(parser.parser, parse(parser.separator, c).cursor).err

NumbersByComma == SeparatedList(UIntParser, comma)

\* C10: whenever the separator matches but the item after it does not,
\* SeparatedList fails with the item's error, so a list that succeeds never
\* ends in a separator; "1,2," fails, and "1,2" succeeds with [1, 2] and an
\* end-of-sequence cursor.
C10_TrailingSeparatorFails ==
    parser.kind = "SeparatedList" =>
        /\ \A i \in SeparatorCalls :
               TrailingSeparatorAt(result.calls[i].cursor) =>
                   /\ IsErr(result)
                   /\ result.err = ItemErrorAfter(result.calls[i].cursor)
        /\ IsOk(result) =>
               /\ Len(result.out) >= 1
               /\ IsErr(parse(parser.separator, result.cursor))
        /\ (parser = NumbersByComma /\ arg = AtomicCursor_new(src)
             /\ src = <<49, 44, 50, 44>>) =>
               /\ IsErr(result)
               /\ result.err = parse(UIntParser, EndOfFile(src)).err
        /\ (parser = NumbersByComma /\ arg = AtomicCursor_new(src)
             /\ src = <<49, 44, 50>>) =>
               /\ IsOk(result)
               /\ result.out = <<1, 2>>
               /\ result.cursor = EndOfFile(src)

\* "1,2," was parsed as a list of numbers: two items were read, the second
\* separator matched, and the parse failed with the error of the item
C10_Witness ==
    /\ parser = NumbersByComma
    /\ src = <<49, 44, 50, 44>>
    /\ arg = AtomicCursor_new(src)
    /\ Cardinality(SeparatorCalls) = 2
    /\ TrailingSeparatorAt(Valid(src, 3))
    /\ IsErr(result)
    /\ result.err.kind = "CannotReadValueAtEof"

\* the elements between the cursors c and c2, read one next() at a time
RECURSIVE Consumed(_, _)
Consumed(c, c2) ==
    IF c = c2 \/ c.kind = "EndOfFile" THEN <<>>
    ELSE <<value(c).out>> \o Consumed(next(c), c2)

\* the last call was Position(P).parse(arg)
PositionOnArg == parse(parser.parser, arg)

\* C11: when Position(P).parse(C) succeeds, P succeeds on C and the result is
\* P's output and P's cursor together with a span over the source of C that
\* starts at C.position() and ends at the position of the returned cursor,
\* with start <= end <= the length of the source; the length of the span is
\* end - start and its slice of the source is the elements between C and the
\* returned cursor, which are the elements P consumed. When P fails,
\* Position(P) returns P's error.
C11_SpanCoversWhatWasConsumed ==
    parser.kind = "Position" =>
        /\ IsOk(result) <=> IsOk(PositionOnArg)
        /\ IsErr(result) => Outcome(result) = Outcome(PositionOnArg)
        /\ IsOk(result) =>
               /\ result.out[1] = PositionOnArg.out
               /\ result.cursor = PositionOnArg.cursor
               /\ result.out[2].source = src
               /\ result.out[2].start = position(arg)
               /\ result.out[2].end = position(result.cursor)
               /\ result.out[2].start <= result.out[2].end
               /\ result.out[2].end <= Len(src)
               /\ Span_len(result.out[2]) = Len(Consumed(arg, result.cursor))
               /\ Span_slice(result.out[2]) = Consumed(arg, result.cursor)

\* Position(P) succeeded on a cursor past the start and P consumed two
\* elements or more
C11_Witness ==
    /\ parser.kind = "Position"
    /\ IsOk(result)
    /\ position(arg) > 0
    /\ Span_len(result.out[2]) >= 2
    /\ Span_slice(result.out[2]) = Consumed(arg, result.cursor)

\* the first k applications of p from c on all start before the end of the
\* sequence and succeed
RECURSIVE AppliedOk(_, _, _)
AppliedOk(p, c, k) ==
    \/ k = 0
    \/ /\ AppliedOk(p, c, k - 1)
       /\ ~eos(CursorAfter(p, c, k - 1))
       /\ IsOk(parse(p, CursorAfter(p, c, k - 1)))

\* the application number k + 1 of p from c on is reached before the end of
\* the sequence and fails
FailsAt(p, c, k) ==
    /\ AppliedOk(p, c, k)
    /\ ~eos(CursorAfter(p, c, k))
    /\ IsErr(parse(p, CursorAfter(p, c, k)))

\* C12: All(p).parse(C) applies p again and again while the cursor is not at
\* the end of the sequence. If an application fails before the end is
\* reached, the call returns the error of that application and no outputs;
\* if the call returns Ok, the returned cursor is at the end of the sequence
\* and the outputs are those of the successive applications, in input order;
\* on a cursor at the end of the sequence (an empty input) it returns Ok with
\* no outputs and does not apply p.
C12_AllConsumesEverythingOrFails ==
    parser.kind = "All" =>
        /\ \A k \in 0..Len(src) :
               FailsAt(parser.parser, arg, k) =>
                   /\ IsErr(result)
                   /\ result.err = parse(parser.parser,
                                         CursorAfter(parser.parser, arg, k)).err
        /\ IsErr(result) => \E k \in 0..Len(src) : FailsAt(parser.parser, arg, k)
        /\ IsOk(result) =>
               /\ eos(result.cursor)
               /\ AppliedOk(parser.parser, arg, Len(result.out))
               /\ result.cursor = CursorAfter(parser.parser, arg, Len(result.out))
               /\ \A k \in 1..Len(result.out) :
                      result.out[k] =
                          parse(parser.parser, CursorAfter(parser.parser, arg, k - 1)).out
        /\ eos(arg) =>
               /\ Outcome(result) = Outcome(Ok(<<>>, arg, <<>>))
               /\ Applications = 0

\* All(p) failed on the second application or later, before the end of the
\* sequence: the outputs of the applications before are dropped
C12_Witness ==
    /\ parser.kind = "All"
    /\ IsErr(result)
    /\ \E k \in 1..Len(src) : FailsAt(parser.parser, arg, k)

\* the last call was Filter(p, predicate, message).parse(arg)
FilterOnArg == parse(parser.parser, arg)

\* C13: Filter(p, predicate, message).parse(C), when p succeeds on C with
\* the value v: if predicate(v) is false the result is the syntax error with
\* the text message, located in the source of C at the position of C, the
\* position before p ran; if predicate(v) is true the result is the value
\* and the cursor that p returned.
C13_FilterRejectsAtTheStart ==
    (parser.kind = "FilterParser" /\ IsOk(FilterOnArg)) =>
        IF apply_predicate(parser.predicate, FilterOnArg.out)
        THEN Outcome(result) = Outcome(FilterOnArg)
        ELSE /\ IsErr(result)
             /\ result.err.kind = "FilterFailed"
             /\ result.err.inner.kind = "SyntaxError"
             /\ result.err.inner.message = parser.error_message
             /\ result.err.inner.loc.code = src
             /\ CodeLoc_position(result.err.inner.loc) = position(arg)

\* the filter rejected a value for which its child had read two elements,
\* from a cursor past the start
C13_Witness ==
    /\ parser.kind = "FilterParser"
    /\ IsOk(FilterOnArg)
    /\ ~apply_predicate(parser.predicate, FilterOnArg.out)
    /\ position(FilterOnArg.cursor) = position(arg) + 2
    /\ position(arg) > 0
    /\ IsErr(result)

\* the last call was And(p1, p2).parse(arg): what p1 returns on arg, and
\* what p2 returns on the cursor p1 returned
AndFirst == parse(parser.parser1, arg)
AndSecond == parse(parser.parser2, AndFirst.cursor)

\* the record of the call itself, the first entry of the calls of its result
SelfCall == [parser |-> parser, cursor |-> arg]

\* C14: And(p1, p2).parse(C) runs p1 on C. If p1 fails, the result is p1's
\* error tagged as the first parser's and no other parser was run. Otherwise
\* p2 runs, once, on the cursor p1 returned: if p2 fails the result is p2's
\* error tagged as the second parser's, with no output and no cursor;
\* otherwise the result is the pair of both outputs and the cursor p2
\* returned.
C14_AndRunsInSequence ==
    parser.kind = "And" =>
        IF IsErr(AndFirst)
        THEN /\ Outcome(result) = Outcome(Err(FirstParser(AndFirst.err), <<>>))
             /\ result.calls = <<SelfCall>> \o AndFirst.calls
        ELSE /\ IsOk(AndFirst)
             /\ result.calls = <<SelfCall>> \o AndFirst.calls \o AndSecond.calls
             /\ result.calls[Len(AndFirst.calls) + 2] =
                    [parser |-> parser.parser2, cursor |-> AndFirst.cursor]
             /\ IF IsErr(AndSecond)
                THEN Outcome(result) = Outcome(Err(SecondParser(AndSecond.err), <<>>))
                ELSE Outcome(result) =
                         Outcome(Ok(<<AndFirst.out, AndSecond.out>>,
                                    AndSecond.cursor, <<>>))

\* the first parser read two elements or more and the second one then
\* failed
C14_Witness ==
    /\ parser.kind = "And"
    /\ IsOk(AndFirst)
    /\ position(AndFirst.cursor) >= position(arg) + 2
    /\ IsErr(AndSecond)
    /\ IsErr(result)
    /\ result.err.kind = "SecondParser"

\* the last call was Or(p1, p2).parse(arg): what p1 and p2 return on arg
OrFirst == parse(parser.parser1, arg)
OrSecond == parse(parser.parser2, arg)

\* C15: Or(p1, p2).parse(C), when p1 succeeds on C, returns p1's output and
\* cursor and the calls made are those of p1 alone: p2 is not invoked. When
\* p1 fails, the calls made are those of p1 followed by those of one
\* invocation of p2: p2 is invoked only after p1 has failed, and once.
C15_OrInvokesSecondOnlyAfterFailure ==
    parser.kind = "Or" =>
        IF IsOk(OrFirst)
        THEN /\ Outcome(result) = Outcome(OrFirst)
             /\ result.calls = <<SelfCall>> \o OrFirst.calls
        ELSE /\ IsErr(OrFirst)
             /\ result.calls = <<SelfCall>> \o OrFirst.calls \o OrSecond.calls
             /\ result.calls[Len(OrFirst.calls) + 2].parser = parser.parser2

\* p1 succeeded on a cursor on which p2 would have succeeded too, with
\* another cursor
C15_Witness ==
    /\ parser.kind = "Or"
    /\ IsOk(OrFirst)
    /\ IsOk(OrSecond)
    /\ OrSecond.cursor # OrFirst.cursor
    /\ IsOk(result)
    /\ Len(result.calls) = 1 + Len(OrFirst.calls)

\* the leaves of an error tree from left to right: those of the first
\* alternative of an Or before those of its second alternative
RECURSIVE LeafSeq(_)
LeafSeq(e) ==
    CASE e.kind = "BothFailed" -> LeafSeq(e.first) \o LeafSeq(e.second)
      [] e.kind \in {"FirstParser", "SecondParser"} -> LeafSeq(e.inner)
      [] OTHER -> <<e>>

\* the leftmost of the leaves located furthest into the input
LeftmostFurthest(leaves) ==
    leaves[CHOOSE i \in DOMAIN leaves :
               /\ \A j \in DOMAIN leaves :
                      CodeLoc_position(loc(leaves[j])) <= CodeLoc_position(loc(leaves[i]))
               /\ \A j \in 1..(i - 1) :
                      CodeLoc_position(loc(leaves[j])) < CodeLoc_position(loc(leaves[i]))]

\* C16: when both alternatives of a failed Or resolve to leaves at the same
\* position, likely_error() is the leaf of the first alternative; and in
\* every tree of Or errors, nested to any depth, likely_error() is the
\* leftmost of the leaves at the maximal position.
C16_TieGoesToTheFirstAlternative ==
    etree # NoError =>
        /\ (/\ etree.kind = "BothFailed"
            /\ CodeLoc_position(loc(likely_error(etree.first)))
                   = CodeLoc_position(loc(likely_error(etree.second))))
               => likely_error(etree) = likely_error(etree.first)
        /\ likely_error(etree) = LeftmostFurthest(LeafSeq(etree))

\* an Or nested three levels deep whose alternatives resolve to different
\* leaves at the same position
C16_Witness ==
    /\ etree # NoError
    /\ etree.kind = "BothFailed"
    /\ OrDepth(etree) >= 3
    /\ CodeLoc_position(loc(likely_error(etree.first)))
           = CodeLoc_position(loc(likely_error(etree.second)))
    /\ likely_error(etree.first) # likely_error(etree.second)
    /\ likely_error(etree) = likely_error(etree.first)

\* the first k applications of p from c on all start before the end of the
\* input and succeed with an output that does not satisfy the predicate
RECURSIVE Taken(_, _, _, _)
Taken(p, predicate, c, k) ==
    \/ k = 0
    \/ /\ Taken(p, predicate, c, k - 1)
       /\ CursorAfter(p, c, k - 1).kind # "EndOfFile"
       /\ IsOk(parse(p, CursorAfter(p, c, k - 1)))
       /\ ~apply_predicate(predicate, parse(p, CursorAfter(p, c, k - 1)).out)

\* after k applications the cursor is one on which p is applied again
TakenThenApplied(p, predicate, c, k) ==
    /\ Taken(p, predicate, c, k)
    /\ CursorAfter(p, c, k).kind # "EndOfFile"

\* the outputs of the first k applications of p from c on
TakenOutputs(p, c, k) == [i \in 1..k |-> parse(p, CursorAfter(p, c, i - 1)).out]

\* when the application number k + 1 of p is the first to give an output
\* that satisfies the predicate, the result is the k outputs before it, in
\* order, and the cursor that application was given; when that application
\* fails, the result is its error
TakeUntilStopsOrFails ==
    parser.kind = "TakeUntilParser" =>
        \A k \in 0..Len(src) :
            TakenThenApplied(parser.parser, parser.predicate, arg, k) =>
                LET c == CursorAfter(parser.parser, arg, k)
                IN  /\ (/\ IsOk(parse(parser.parser, c))
                        /\ apply_predicate(parser.predicate, parse(parser.parser, c).out))
                        => /\ IsOk(result)
                           /\ result.out = TakenOutputs(parser.parser, arg, k)
                           /\ result.cursor = c
                    /\ IsErr(parse(parser.parser, c))
                        => /\ IsErr(result)
                           /\ result.err = parse(parser.parser, c).err

\* what TakeUntil returns, read the other way: an Ok result before the end
\* of the input is a stop at an output that satisfies the predicate, an Ok
\* result at the end of the input holds every output, an Err is p's
TakeUntilReturnsOnlyThat ==
    parser.kind = "TakeUntilParser" =>
        /\ IsOk(result) =>
               /\ Taken(parser.parser, parser.predicate, arg, Len(result.out))
               /\ result.out = TakenOutputs(parser.parser, arg, Len(result.out))
               /\ result.cursor = CursorAfter(parser.parser, arg, Len(result.out))
               /\ result.cursor.kind # "EndOfFile" =>
                      /\ IsOk(parse(parser.parser, result.cursor))
                      /\ apply_predicate(parser.predicate,
                                         parse(parser.parser, result.cursor).out)
        /\ IsErr(result) =>
               \E k \in 0..Len(src) :
                   /\ TakenThenApplied(parser.parser, parser.predicate, arg, k)
                   /\ IsErr(parse(parser.parser, CursorAfter(parser.parser, arg, k)))

\* C17: TakeUntil(p, predicate).parse(C) returns the outputs of p in order up
\* to and excluding the first output that satisfies the predicate, with the
\* cursor at the start of that element: it is not consumed, and p applied to
\* the returned cursor reads it again. If p fails before that, the result is
\* p's error. (The end of the input ends the scan too: the result is then
\* the outputs so far and the cursor at the end.)
C17_TakeUntilLeavesTheStopper == TakeUntilStopsOrFails /\ TakeUntilReturnsOnlyThat

\* the scan stopped after two outputs or more at an element that satisfies
\* the predicate, and the element is still there to read
C17_Witness ==
    /\ parser.kind = "TakeUntilParser"
    /\ IsOk(result)
    /\ Len(result.out) >= 2
    /\ result.cursor.kind = "Valid"
    /\ IsOk(parse(parser.parser, result.cursor))
    /\ apply_predicate(parser.predicate, parse(parser.parser, result.cursor).out)

\* C18 as stated: try_next() on a cursor at the end of the sequence is an
\* error, and on a cursor that holds an element, the last one of the
\* sequence included, it succeeds with the cursor next() returns.
C18_TryNextSucceedsOnEveryElement ==
    parser.kind = "try_next" =>
        IF arg.kind = "EndOfFile"
        THEN IsErr(result)
        ELSE /\ IsOk(result)
             /\ result.cursor = next(arg)

\* C18 as amended: try_next() on a cursor at the end of the sequence is the
\* error AlreadyAtEndOfFile; on a cursor that holds the last element of the
\* sequence it is the error UnexpectedEndOfFile, both located at the length
\* of the source; on a cursor that holds an element before the last it
\* succeeds with the cursor next() returns, which holds an element.
C18_TryNextFailsOntoTheEnd ==
    parser.kind = "try_next" =>
        IF arg.kind = "EndOfFile"
        THEN /\ IsErr(result)
             /\ result.err = AlreadyAtEndOfFile(CodeLoc_new(src, Len(src)))
        ELSE IF position(arg) + 1 = Len(src)
        THEN /\ IsErr(result)
             /\ result.err = UnexpectedEndOfFile(CodeLoc_new(src, Len(src)))
             /\ next(arg).kind = "EndOfFile"
        ELSE /\ IsOk(result)
             /\ result.cursor = next(arg)
             /\ result.cursor.kind = "Valid"

\* try_next() was called on the cursor that holds the last element, reached
\* by moving, and failed
C18_Witness ==
    /\ parser.kind = "try_next"
    /\ arg.kind = "Valid"
    /\ position(arg) > 0
    /\ position(arg) + 1 = Len(src)
    /\ IsErr(result)
    /\ result.err.kind = "UnexpectedEndOfFile"

\* the last call was Between(open, content, close).parse(arg): what open
\* returns on arg, content on the cursor open returned, and close on the
\* cursor content returned
BetweenOpen == parse(parser.open, arg)
BetweenContent == parse(parser.content, BetweenOpen.cursor)
BetweenClose == parse(parser.close, BetweenContent.cursor)

\* Between runs open, content and close in this order, each on the cursor
\* the one before returned and nothing else; it returns the output of
\* content and the cursor of close, or the error of the first that fails
BetweenRunsInOrder ==
    parser.kind = "Between" =>
        IF IsErr(BetweenOpen)
        THEN /\ Outcome(result) = Outcome(Err(OpenDelimiter(BetweenOpen.err), <<>>))
             /\ result.calls = <<SelfCall>> \o BetweenOpen.calls
        ELSE IF IsErr(BetweenContent)
        THEN /\ Outcome(result) = Outcome(Err(Content(BetweenContent.err), <<>>))
             /\ result.calls = <<SelfCall>> \o BetweenOpen.calls \o BetweenContent.calls
        ELSE /\ result.calls = <<SelfCall>> \o BetweenOpen.calls
                                   \o BetweenContent.calls \o BetweenClose.calls
             /\ IF IsErr(BetweenClose)
                THEN Outcome(result) = Outcome(Err(CloseDelimiter(BetweenClose.err), <<>>))
                ELSE Outcome(result) =
                         Outcome(Ok(BetweenContent.out, BetweenClose.cursor, <<>>))

\* the source is '[', whitespace, a number, whitespace and ']', and the last
\* call was made on its start
PaddedNumber(w1, d, w2) ==
    /\ src = Padded(w1, d, w2)
    /\ position(arg) = 0
    /\ parser.content = UIntParser

\* Between of a number fails on whitespace after '[' with an error that
\* resolves to the index after '[', and on whitespace before ']' with one
\* at the index after the number; the whitespace-aware variant succeeds on
\* both with the number
BetweenSkipsNoWhitespace ==
    \A w1 \in WhitespaceRuns, w2 \in WhitespaceRuns,
       d \in SeqsUpTo({52, 50}, MaxTail) \ {<<>>} :
        PaddedNumber(w1, d, w2) =>
            /\ (parser.kind = "Between" /\ w1 # <<>>) =>
                   /\ IsErr(result)
                   /\ result.err.kind = "Content"
                   /\ CodeLoc_position(loc(likely_error(result.err))) = 1
            /\ (parser.kind = "Between" /\ w1 = <<>> /\ w2 # <<>>) =>
                   /\ IsErr(result)
                   /\ result.err.kind = "CloseDelimiter"
                   /\ CodeLoc_position(loc(likely_error(result.err))) = 1 + Len(d)
            /\ parser.kind = "WhitespaceBetween" =>
                   Outcome(result) = Outcome(Ok(DecimalValue(d), EndOfFile(src), <<>>))

\* the example of the claim: "[ 42 ]"
BetweenExample ==
    (src = <<91, 32, 52, 50, 32, 93>> /\ position(arg) = 0
         /\ parser.content = UIntParser) =>
        /\ parser.kind = "Between" =>
               /\ IsErr(result)
               /\ CodeLoc_position(loc(likely_error(result.err))) = 1
        /\ parser.kind = "WhitespaceBetween" =>
               /\ IsOk(result)
               /\ result.out = 42

\* C19: Between(open, content, close) runs open, content and close in this
\* order, each where the one before stopped, and returns the output of
\* content alone; it skips no whitespace: Between('[', number, ']') on
\* "[ 42 ]" fails with an error that resolves to index 1, the first byte
\* after '[' that is not a digit, and the whitespace-aware variant succeeds
\* on the same input with 42.
C19_BetweenSkipsNothing ==
    parser.kind \in {"Between", "WhitespaceBetween"} =>
        /\ BetweenRunsInOrder
        /\ BetweenSkipsNoWhitespace
        /\ BetweenExample

\* Between('[', number, ']') was called on "[ 42 ]" and failed at index 1
C19_Witness ==
    /\ parser = Between(left_bracket, UIntParser, right_bracket)
    /\ src = <<91, 32, 52, 50, 32, 93>>
    /\ position(arg) = 0
    /\ IsErr(result)
    /\ CodeLoc_position(loc(likely_error(result.err))) = 1

\* the calls of factories and the parse() calls of Lazy parsers among the
\* calls of the last result
FactoryCalls == {i \in DOMAIN result.calls : result.calls[i].parser.kind = "factory"}
LazyCalls == {i \in DOMAIN result.calls : result.calls[i].parser.kind = "Lazy"}

\* the last call was Lazy(factory).parse(arg): what the parser that the
\* factory builds returns on arg
LazyProduced == parse(apply_factory(parser.factory), arg)

\* C20: building Lazy(factory) does not call the factory; each parse(C) of it
\* calls the factory once, and returns what the parser the factory built
\* returns on C: the same output and cursor, or the same error. The same
\* holds of every Lazy parser run inside the call.
C20_LazyBuildsOncePerParse ==
    /\ parser.kind = "Lazy_new" =>
           /\ result.out = Lazy(parser.factory)
           /\ result.calls = <<>>
    /\ parser.kind = "Lazy" =>
           /\ Outcome(result) = Outcome(LazyProduced)
           /\ result.calls =
                  <<SelfCall, FactoryCall(parser.factory, arg)>> \o LazyProduced.calls
           /\ Cardinality(FactoryCalls) = Cardinality(LazyCalls)
           /\ \A i \in LazyCalls :
                  /\ i + 1 \in FactoryCalls
                  /\ result.calls[i + 1] =
                         FactoryCall(result.calls[i].parser.factory, result.calls[i].cursor)

\* a Lazy parser of a grammar that refers to itself succeeded after running
\* itself three times or more, each time building the parser once
C20_Witness ==
    /\ parser.kind = "Lazy"
    /\ parser.factory = "nested"
    /\ IsOk(result)
    /\ Cardinality(LazyCalls) >= 3
    /\ Cardinality(FactoryCalls) = Cardinality(LazyCalls)

\* the indices (from 0) of the newlines of the source before the location
NewlinesBefore(location) == {i \in 0..(location - 1) : src[i + 1] = NEWLINE}

\* the index at which the line of the location starts
LineStart(location) ==
    IF NewlinesBefore(location) = {} THEN 0
    ELSE 1 + CHOOSE i \in NewlinesBefore(location) :
                 \A j \in NewlinesBefore(location) : j <= i

\* C28: for every source and every location loc from 0 to the length of the
\* source, readable_position gives line = 1 + the number of newlines at
\* indices below loc, and byte_offset = loc - the index after the last
\* newline below loc (0 when there is none); the subtraction does not
\* underflow, and a location right after a trailing newline is on the next
\* line at offset 0.
C28_ReadablePositionCountsNewlines ==
    parser.kind = "readable_position" =>
        /\ result.out.line = 1 + Cardinality(NewlinesBefore(position(arg)))
        /\ result.out.byte_offset = position(arg) - LineStart(position(arg))
        /\ LineStart(position(arg)) <= position(arg)
        /\ result.out.byte_offset >= 0
        /\ (position(arg) = Len(src) /\ Len(src) > 0 /\ src[Len(src)] = NEWLINE) =>
               /\ result.out.byte_offset = 0
               /\ result.out.line = 1 + Cardinality({i \in DOMAIN src : src[i] = NEWLINE})

\* the location is the end of a source of three lines that ends with a
\* newline: line 4, offset 0
C28_Witness ==
    /\ parser.kind = "readable_position"
    /\ arg.kind = "EndOfFile"
    /\ Len(src) >= 4
    /\ src[Len(src)] = NEWLINE
    /\ src[1] = 97
    /\ result.out = [line |-> 4, byte_offset |-> 0]

\* the last call was context_lines() of the location of arg: the rendered
\* lines that carry the marker, those that are pointers, and the others
HerePointer == <<94, 45, 45, 45, 32, 104, 101, 114, 101>>
IsPointerLine(line) ==
    /\ Len(line) >= Len(HerePointer)
    /\ SubSeq(line, Len(line) - Len(HerePointer) + 1, Len(line)) = HerePointer
    /\ \A i \in 1..(Len(line) - Len(HerePointer)) : line[i] = 32
IsMarkerLine(line) == Len(line) >= 4 /\ SubSeq(line, 1, 4) = <<32, 32, 62, 32>>
MarkerLines == {i \in DOMAIN result.out : IsMarkerLine(result.out[i])}
PointerLines == {i \in DOMAIN result.out : IsPointerLine(result.out[i])}
SourceLines == DOMAIN result.out \ PointerLines

\* the number of spaces before the caret of a pointer line
CaretColumn(line) == Len(line) - Len(HerePointer)

\* the marker prefix of the line of the location of arg
ArgPrefix ==
    line_prefix(readable_position(CodeLoc_new(src, position(arg))).line,
                readable_position(CodeLoc_new(src, position(arg))))

\* the line of the location shown with its marker, and the pointer under it
\* with its caret at the length of the prefix plus the offset in the line
MarkedAndPointed ==
    /\ Cardinality(MarkerLines) = 1
    /\ Cardinality(PointerLines) = 1
    /\ \A i \in MarkerLines :
           /\ i + 1 \in PointerLines
           /\ Len(result.out[i]) >= Len(ArgPrefix)
           /\ SubSeq(result.out[i], 1, Len(ArgPrefix)) = ArgPrefix
           /\ CaretColumn(result.out[i + 1]) =
                  Len(ArgPrefix) + (position(arg) - LineStart(position(arg)))

\* C21 as stated: for every source and every location from 0 to the length
\* of the source (the end of the source, a location right after a trailing
\* newline and the empty source included) the rendered context shows at
\* most five lines of the source (the failing line, two before, two after),
\* exactly one of them with the '>' marker, the line of the location, and
\* directly after it exactly one '^--- here' pointer line whose caret is at
\* the length of the marker prefix plus the offset of the location in its
\* line.
C21_ContextMarksTheFailingLine ==
    parser.kind = "context_lines" =>
        /\ Cardinality(SourceLines) <= 5
        /\ MarkedAndPointed

\* what the code does hold to: the claim's statement whenever the line of
\* the location has a character or is ended by a newline, and no marker and
\* no pointer at all when the location is at the end of a source that is
\* empty or ends with a newline
ContextMarksUnlessOnTheEmptyLastLine ==
    parser.kind = "context_lines" =>
        /\ Cardinality(SourceLines) <= 5
        /\ IF LineStart(position(arg)) = Len(src)
           THEN MarkerLines = {} /\ PointerLines = {}
           ELSE MarkedAndPointed

\* the last call was Map(p, f).parse(arg): what p returns on arg
MapChild == parse(parser.parser, arg)

\* C22: Map(p, f).parse(C) succeeds exactly when p.parse(C) does; it then
\* returns f of p's output with the cursor p returned, after one application
\* of f; when p fails it returns p's error as it is and f is not applied.
C22_MapTouchesOnlyTheOutput ==
    parser.kind = "Map" =>
        /\ IsOk(result) <=> IsOk(MapChild)
        /\ IsOk(MapChild) =>
               /\ result.out = apply_mapper(parser.mapper, MapChild.out)
               /\ result.cursor = MapChild.cursor
               /\ result.calls = <<SelfCall>> \o MapChild.calls
                                     \o <<MapperCall(parser.mapper, MapChild.cursor)>>
        /\ IsErr(MapChild) =>
               /\ Outcome(result) = Outcome(MapChild)
               /\ result.calls = <<SelfCall>> \o MapChild.calls

\* the child read two elements from a cursor past the start and its output,
\* a pair, was mapped to its second element
C22_Witness ==
    /\ parser.kind = "Map"
    /\ parser.mapper = "second"
    /\ IsOk(result)
    /\ position(arg) > 0
    /\ position(result.cursor) = position(arg) + 2
    /\ MapChild.out = <<97, 98>>
    /\ result.out = 98

\* the source from the index i (from 0) on, read as a number: is there a
\* sign, and the longest run of digits after it
IsDigit(b) == b \in 48..57
RECURSIVE DigitRunAt(_)
DigitRunAt(i) ==
    IF i < Len(src) /\ IsDigit(src[i + 1]) THEN <<src[i + 1]>> \o DigitRunAt(i + 1)
    ELSE <<>>
HasSignAt(i) == i < Len(src) /\ src[i + 1] \in {45, 43}
IsMinusAt(i) == i < Len(src) /\ src[i + 1] = 45
WrittenDigits(i) == DigitRunAt(IF HasSignAt(i) THEN i + 1 ELSE i)

\* the number written at i lies in [-2^63, 2^63 - 1]
FitsI64(i) ==
    /\ WrittenDigits(i) # <<>>
    /\ IF IsMinusAt(i)
       THEN ~DigitsGreater(StripZeros(WrittenDigits(i)), I64MinMagnitudeDigits)
       ELSE ~DigitsGreater(StripZeros(WrittenDigits(i)), I64MaxDigits)

\* the result is the number written at the position of arg, with the cursor
\* after its digits, if that number is an i64, and an error if not
IntIsExact ==
    IF FitsI64(position(arg))
    THEN /\ IsOk(result)
         /\ result.out = SignedValue(IsMinusAt(position(arg)),
                                     StripZeros(WrittenDigits(position(arg))))
         /\ position(result.cursor) =
                position(arg) + Len(WrittenDigits(position(arg)))
                + (IF HasSignAt(position(arg)) THEN 1 ELSE 0)
    ELSE IsErr(result)

\* C23 as stated: for every input the signed-integer parser returns Ok(v)
\* with v the exact value of the optional sign and the digit run, which lies
\* in [-2^63, 2^63 - 1], or an error; '-' and the digits of 2^63 give -2^63
\* and a larger magnitude gives an error; no overflow, wrap-around or panic
\* happens when the sign is applied.
C23_IntIsExactOrAnError ==
    parser.kind = "IntParser" =>
        /\ result.tag \in {"Ok", "Err"}
        /\ IntIsExact

\* what holds in every build: a panic happens on '-' and the digits of 2^63
\* only, and every result that is returned is the exact one
IntIsExactUnlessItPanics ==
    parser.kind = "IntParser" =>
        IF result.tag = "Panic"
        THEN /\ IsMinusAt(position(arg))
             /\ StripZeros(WrittenDigits(position(arg))) = I64MinMagnitudeDigits
        ELSE IntIsExact

\* C24: try_next() on a Valid cursor at the last index of the sequence
\* returns the error 'unexpected end of file' located at the index
\* len(data); on an EndOfFile cursor it returns the error 'already at end of
\* file'; on a Valid cursor at an earlier index it returns Ok with the Valid
\* cursor at position + 1 over the same data.
C24_TryNextByIndex ==
    parser.kind = "try_next" =>
        CASE arg.kind = "EndOfFile" ->
                 /\ result.tag = "Err"
                 /\ result.err.kind = "AlreadyAtEndOfFile"
          [] arg.kind = "Valid" /\ arg.position = Len(arg.data) - 1 ->
                 /\ result.tag = "Err"
                 /\ result.err.kind = "UnexpectedEndOfFile"
                 /\ result.err.loc.code = arg.data
                 /\ result.err.loc.loc = Len(arg.data)
          [] OTHER ->
                 /\ result.tag = "Ok"
                 /\ result.cursor = Valid(arg.data, arg.position + 1)
                 /\ position(result.cursor) = position(arg) + 1

\* try_next() was called on the cursor a one-element input starts with and
\* failed with 'unexpected end of file' at index 1
C24_Witness ==
    /\ parser.kind = "try_next"
    /\ Len(src) = 1
    /\ arg = Valid(src, 0)
    /\ result.tag = "Err"
    /\ result.err = UnexpectedEndOfFile(CodeLoc_new(src, 1))

\* the k-th byte after the lead byte at arg is there and is the first one
\* that is not a continuation byte 10xxxxxx
BadContinuationAt(k) ==
    /\ k \in 1..(SequenceLen(ByteAt(src, position(arg) + 1)) - 1)
    /\ position(arg) + 1 + k <= Len(src)
    /\ ByteAt(src, position(arg) + 1 + k) \notin 128..191
    /\ \A j \in 1..(k - 1) : ByteAt(src, position(arg) + 1 + j) \in 128..191

\* C25 as stated: each continuation byte of a multi-byte sequence is validated as it
\* is read: if the k-th byte after the lead byte is not a continuation
\* byte, CharParser fails with 'invalid continuation byte' located after
\* that byte, whether or not the later bytes of the sequence exist.
C25_ContinuationValidatedAsRead ==
    CharOnByte =>
        \A k \in 1..MaxContinuations :
            BadContinuationAt(k) =>
                /\ Reason(result, "invalid UTF-8 continuation byte")
                /\ result.err.loc.loc = position(arg) + 1 + k

\* C25 as amended: CharParser reads every byte the lead byte announces
\* before it validates any of them, so a sequence cut short by the end of
\* the input is 'incomplete', located at the end of the input, whatever the
\* bytes read so far are, and a byte that is not a continuation byte is
\* reported as 'invalid continuation byte' only for a sequence of full
\* length, located after the last byte of the sequence.
C25_ContinuationValidatedAfterAllAreRead ==
    (CharOnByte /\ SequenceLen(ByteAt(src, position(arg) + 1)) > 1) =>
        IF position(arg) + SequenceLen(ByteAt(src, position(arg) + 1)) > Len(src)
        THEN /\ Reason(result, "incomplete UTF-8 sequence")
             /\ result.err.loc.loc = Len(src)
        ELSE (\E k \in 1..MaxContinuations : BadContinuationAt(k)) =>
                 /\ Reason(result, "invalid UTF-8 continuation byte")
                 /\ result.err.loc.loc
                        = position(arg) + SequenceLen(ByteAt(src, position(arg) + 1))

\* E0 41 and the end of the input: a three-byte lead, one byte that is not a
\* continuation byte, and nothing more, was rejected as incomplete
C25_Witness ==
    /\ CharOnByte
    /\ src = <<224, 65>>
    /\ position(arg) = 0
    /\ Reason(result, "incomplete UTF-8 sequence")

\* the last call was a separated list, plain or whitespace-aware, on arg
ListOnArg == parser.kind \in {"SeparatedList", "WhitespaceSeparatedList"}

\* the applications of the item parser that the last call made
ItemCalls ==
    {i \in DOMAIN result.calls : i > 1 /\ result.calls[i].parser = parser.parser}

\* what the item parser returned the last time the list applied it
LastItem ==
    parse(parser.parser,
          result.calls[CHOOSE i \in ItemCalls : \A j \in ItemCalls : j <= i].cursor)

\* the cursor the separator is tried on after the last item: the cursor of
\* the item, in the whitespace-aware list after the whitespace that follows
SeparatorTriedAt ==
    IF parser.kind = "WhitespaceSeparatedList"
    THEN parse(Many(unicode_whitespace), LastItem.cursor).cursor
    ELSE LastItem.cursor

\* C26: when the separator attempt after an item fails, the list returns Ok
\* with the items parsed so far and the cursor the last item returned:
\* nothing the failed separator attempt read is consumed, and in the
\* whitespace-aware list neither is the whitespace skipped before a
\* separator that did not match or before the end of the input.
C26_ListEndsAfterTheLastItem ==
    (ListOnArg /\ IsOk(result)) =>
        /\ ItemCalls # {}
        /\ Cardinality(ItemCalls) = Len(result.out)
        /\ IsOk(LastItem)
        /\ IsErr(parse(parser.separator, SeparatorTriedAt))
        /\ result.cursor = LastItem.cursor
        /\ position(result.cursor) <= position(SeparatorTriedAt)

\* "1 x" was parsed as a whitespace-aware list of numbers by commas: the
\* space was skipped, the comma did not match 'x', and the list ended on the
\* space
C26_Witness ==
    /\ parser = WhitespaceSeparatedList(UIntParser, comma)
    /\ src = <<49, 32, 120>>
    /\ arg = AtomicCursor_new(src)
    /\ IsOk(result)
    /\ result.out = <<1>>
    /\ SeparatorTriedAt = Valid(src, 2)
    /\ result.cursor = Valid(src, 1)

\* the last call was ThenOptionally(p1, p2).parse(arg): what p1 returns on
\* arg and p2 on the cursor p1 returned
ThenFirst == parse(parser.parser1, arg)
ThenSecond == parse(parser.parser2, ThenFirst.cursor)

\* C27: ThenOptionally(p1, p2).parse(C) fails if and only if p1 fails on C;
\* when p1 succeeds and p2 fails on p1's cursor the result is Ok with
\* (o1, None) and the cursor p1 returned; when both succeed it is Ok with
\* (o1, Some(o2)) and the cursor p2 returned.
C27_ThenOptionallyFailsOnlyWithTheFirst ==
    parser.kind = "ThenOptionally" =>
        /\ IsErr(result) <=> IsErr(ThenFirst)
        /\ (IsOk(ThenFirst) /\ IsErr(ThenSecond)) =>
               /\ IsOk(result)
               /\ result.out = <<ThenFirst.out, Option_None>>
               /\ result.cursor = ThenFirst.cursor
        /\ (IsOk(ThenFirst) /\ IsOk(ThenSecond)) =>
               /\ IsOk(result)
               /\ result.out = <<ThenFirst.out, Option_Some(ThenSecond.out)>>
               /\ result.cursor = ThenSecond.cursor

\* 'a' then optionally "ab" was parsed on "aac": the optional parser read
\* the second 'a' and failed on 'c', and the result is ('a', None) with the
\* cursor on the second 'a'
C27_Witness ==
    /\ parser = ThenOptionally(byte_a, a_then_b)
    /\ src = <<97, 97, 99>>
    /\ arg = AtomicCursor_new(src)
    /\ IsErr(ThenSecond)
    /\ Len(ThenSecond.calls) > 2
    /\ result.tag = "Ok"
    /\ result.out = <<97, Option_None>>
    /\ result.cursor = Valid(src, 1)

\* c2 is a cursor over the source of c, at or after c and within the source
Forward(c, c2) ==
    /\ source(c2) = source(c)
    /\ position(c2) >= position(c)
    /\ position(c2) <= Len(source(c))
    /\ c2.kind = "Valid" => c2.position < Len(source(c))

\* the entries of the record of calls that are applications of a parser
ParserCalls ==
    {i \in DOMAIN result.calls : result.calls[i].parser.kind \notin {"factory", "mapper"}}

\* C29: a successful parse(C), of the parser called and of every parser it
\* applied on the way, returns a cursor over the source of C whose position
\* is at least the position of C and at most the length of the source.
C29_CursorsOnlyMoveForward ==
    /\ (~Moving /\ IsOk(result)) => Forward(arg, result.cursor)
    /\ \A i \in ParserCalls :
           IsOk(parse(result.calls[i].parser, result.calls[i].cursor)) =>
               Forward(result.calls[i].cursor,
                       parse(result.calls[i].parser, result.calls[i].cursor).cursor)

\* a position of a sequence of two positions was parsed from the second
\* element of a source of three and returned the end of the source
C29_Witness ==
    /\ parser = Position(And(Position(byte_a), Position(ByteParser)))
    /\ Len(src) = 3
    /\ position(arg) = 1
    /\ IsOk(result)
    /\ Cardinality(ParserCalls) = 6
    /\ result.cursor = EndOfFile(src)

\* the float written at the position of arg: the index after the sign and
\* the integer digits, where the dot is, and the digits written after it
FloatDotIndex ==
    position(arg) + (IF HasSignAt(position(arg)) THEN 1 ELSE 0)
    + Len(WrittenDigits(position(arg)))

WrittenFraction == DigitRunAt(FloatDotIndex + 1)

\* the last call was the float parser on '<sign?><int digits>.<frac digits>'
\* with an integer part of at most 2^53, which is an f64
FloatOnArg ==
    /\ parser.kind = "IntDotUintParser"
    /\ WrittenDigits(position(arg)) # <<>>
    /\ ~DigitsGreater(StripZeros(WrittenDigits(position(arg))), TwoTo53Digits)
    /\ FloatDotIndex < Len(src)
    /\ src[FloatDotIndex + 1] = 46
    /\ WrittenFraction # <<>>

\* C30: for input '<sign?><int digits>.<frac digits>' the result of the
\* float parser is sign * (|int| + frac / 10^k) with k the number of digit
\* characters written after the dot, leading zeros included, and a negative
\* sign exactly when the input starts with '-'; an input with more than 15
\* digit characters after the dot is rejected.
C30_FloatDenotesWhatIsWritten ==
    FloatOnArg =>
        IF Len(WrittenFraction) > MAX_FRACTIONAL_DIGITS
        THEN IsErr(result)
        ELSE /\ IsOk(result)
             /\ result.out = DecimalNumber(IsMinusAt(position(arg)),
                                           WrittenDigits(position(arg)),
                                           WrittenFraction)

\* what the float parser computes instead: the leading zeros of the
\* fraction are lost, both in its digits and in the count of them, and the
\* sign is that of the integer part, which '-0' does not have
FloatDenotesWhatIsComputed ==
    FloatOnArg =>
        IF Len(StripZeros(WrittenFraction)) > MAX_FRACTIONAL_DIGITS
        THEN IsErr(result)
        ELSE /\ IsOk(result)
             /\ result.out =
                    DecimalNumber(/\ IsMinusAt(position(arg))
                                  /\ StripZeros(WrittenDigits(position(arg))) # <<48>>,
                                  WrittenDigits(position(arg)),
                                  StripZeros(WrittenFraction))
             /\ position(result.cursor) = FloatDotIndex + 1 + Len(WrittenFraction)

====
